---- MODULE Spec2Model ----
(***************************************************************************)
(* Model of the enterprise-search Telegram bot: the authorization gate     *)
(* (src/src/auth), the Redis-backed conversation state (src/src/storage),  *)
(* the backend token, and the handlers guarded by require_auth.            *)
(***************************************************************************)
EXTENDS Integers, Sequences, FiniteSets, TLC

\* Telegram user ids that send updates or are named in the configuration.
Users == {1, 2, 3}

\* Python's None for an Optional[...] value; Some(v) is a value that is there.
None == <<"None">>
Some(v) == <<"Some", v>>
Value(opt) == opt[2]

\* Users that hold a conversation with the bot.
Chatters == {1, 2}

\* The clock stops at MaxTime; a minute of the clock is SecondsPerMinute ticks.
MaxTime == 4
SecondsPerMinute == 1

\* The longest lifetime, in minutes, a backend token is asked for.
MaxExpiresMinutes == 2

\* Settings.session_timeout_minutes, in minutes of the model's clock.
session_timeout_minutes == 2

\* Python's empty dict; a dict is a function from its keys to their values.
EmptyDict == [k \in {} |-> 0]
\* The truth value of an Optional[Dict]: None and {} are both false.
Truthy(opt) == opt # None /\ Value(opt) # EmptyDict

\* The values the callers of ConversationState pass in.
Flows == {"connect_platform", "upload_file", "refine_search"}
FlowData == {None, Some(EmptyDict), Some([platform |-> "drive"])}
States == {EmptyDict, [current_flow |-> "upload_file", flow_data |-> [platform |-> "slack"]]}
Updates == {[last_upload_job |-> "job1"], [current_flow |-> "connecting"]}

VARIABLES
    settings,         \* Settings: the configured allowed and admin user ids
    allowed_users,    \* AuthManager.allowed_users
    admin_users,      \* AuthManager.admin_users
    allow_all_users,  \* AuthManager.allow_all_users
    now,              \* the clock (datetime.utcnow, and the Redis server's time)
    redis,            \* the Redis database: key -> [data, expire_at]
    redis_up,         \* whether commands sent to the Redis server succeed
    connected,        \* RedisStateStorage._connected
    tasks,            \* the update_state calls suspended between their read and their write
    bearer,           \* the token a client of the bot holds, and where it came from
    last              \* the most recent operation and what it returned

vars == <<settings, allowed_users, admin_users, allow_all_users, now, redis, redis_up, connected,
          tasks, bearer, last>>
auth_vars == <<settings, allowed_users, admin_users, allow_all_users>>
store_vars == <<now, redis, redis_up, connected, tasks>>

\* What an operation leaves behind for observation: its name, the user it
\* was called for, and its return value.
Obs(op, user, arg, ret) ==
    [op |-> op, user |-> user, arg |-> arg, ret |-> ret, invoked |-> FALSE,
     sent |-> <<>>, calls |-> <<>>, raised |-> FALSE]

(***************************************************************************)
(* AuthManager                                                             *)
(***************************************************************************)
is_user_allowed_no_mode(allow_all, allowed, user_id) ==
    user_id \in allowed

is_user_allowed_only_mode(allow_all, allowed, user_id) ==
    allow_all

is_user_allowed(allow_all, allowed, user_id) ==
    IF allow_all THEN TRUE ELSE user_id \in allowed

is_user_admin(admins, user_id) ==
    user_id \in admins

add_user_always_true(allowed, user_id) ==
    [ret |-> TRUE, allowed |-> allowed \cup {user_id}]

add_user_replacing(allowed, user_id) ==
    IF user_id \notin allowed
    THEN [ret |-> TRUE, allowed |-> {user_id}]
    ELSE [ret |-> FALSE, allowed |-> allowed]

add_user(allowed, user_id) ==
    IF user_id \notin allowed
    THEN [ret |-> TRUE, allowed |-> allowed \cup {user_id}]
    ELSE [ret |-> FALSE, allowed |-> allowed]

remove_user_ignoring_admin(allowed, admins, user_id) ==
    IF user_id \in allowed
    THEN [ret |-> TRUE, allowed |-> allowed \ {user_id}]
    ELSE [ret |-> FALSE, allowed |-> allowed]

remove_user_reporting_true(allowed, admins, user_id) ==
    IF user_id \notin admins
    THEN [ret |-> TRUE, allowed |-> allowed \ {user_id}]
    ELSE [ret |-> FALSE, allowed |-> allowed]

remove_user(allowed, admins, user_id) ==
    IF user_id \in allowed /\ user_id \notin admins
    THEN [ret |-> TRUE, allowed |-> allowed \ {user_id}]
    ELSE [ret |-> FALSE, allowed |-> allowed]

(***************************************************************************)
(* Backend tokens (AuthManager.create_backend_token, verify_backend_token) *)
(***************************************************************************)
\* Settings.backend_jwt_secret, and a key that is not the secret.
jwt_secret == "backend_jwt_secret"
other_key == "other_key"

\* str(n) of a natural number: its decimal digits; int(s) reads them back.
RECURSIVE str(_)
str(n) == IF n < 10 THEN <<n>> ELSE str(n \div 10) \o <<n % 10>>

RECURSIVE int(_)
int(s) == IF Len(s) = 1 THEN s[1] ELSE 10 * int(SubSeq(s, 1, Len(s) - 1)) + s[Len(s)]

\* timedelta(minutes=m), in ticks of the clock.
timedelta_minutes(m) == m * SecondsPerMinute

\* The HS256 signature of a header and a payload under a key.
hmac_sha256(key, header, payload) == [key |-> key, header |-> header, payload |-> payload]

\* jwt.encode(payload, key, algorithm)
jwt_encode(payload, key, algorithm) ==
    LET header == [alg |-> algorithm, typ |-> "JWT"]
    IN  [header |-> header, payload |-> payload,
         signature |-> hmac_sha256(key, header, payload)]

\* jwt.decode(token, key, algorithms): the payload, or JWTError for a token
\* that is not a JWT, names another algorithm, carries a signature that is
\* not the key's, or whose exp lies before the current time.
jwt_decode_without_expiry(token, key, algorithms, t) ==
    IF DOMAIN token # {"header", "payload", "signature"}
    THEN [error |-> TRUE]
    ELSE IF token.header.alg \notin algorithms
    THEN [error |-> TRUE]
    ELSE IF token.signature # hmac_sha256(key, token.header, token.payload)
    THEN [error |-> TRUE]
    ELSE [error |-> FALSE, payload |-> token.payload]

jwt_decode(token, key, algorithms, t) ==
    IF DOMAIN token # {"header", "payload", "signature"}
    THEN [error |-> TRUE]
    ELSE IF token.header.alg \notin algorithms
    THEN [error |-> TRUE]
    ELSE IF token.signature # hmac_sha256(key, token.header, token.payload)
    THEN [error |-> TRUE]
    ELSE IF token.payload.exp < t
    THEN [error |-> TRUE]
    ELSE [error |-> FALSE, payload |-> token.payload]

create_backend_token(secret, user_id, expires_minutes, t) ==
    LET expire == t + timedelta_minutes(expires_minutes)
        payload == [sub |-> str(user_id), exp |-> expire, iat |-> t, type |-> "bot_user"]
    IN  jwt_encode(payload, secret, "HS256")

verify_backend_token(secret, token, t) ==
    LET decoded == jwt_decode(token, secret, {"HS256"}, t)
    IN  IF decoded.error THEN None ELSE Some(decoded.payload)

\* A text that is not a JWT, such as "invalid_token".
MalformedToken == [text |-> "invalid_token"]

\* What a client holds before any token was issued to it.
NoToken == [value |-> MalformedToken, issued_to |-> 0, how |-> "malformed"]

(***************************************************************************)
(* The Redis server, as the client calls of RedisStateStorage use it       *)
(***************************************************************************)
NoExpiry == -1

\* GET: a key whose expiry time has come is not there any more.
redis_get_never_expiring(r, key, t) ==
    IF key \in DOMAIN r THEN Some(r[key].data) ELSE None

redis_get(r, key, t) ==
    IF key \in DOMAIN r /\ (r[key].expire_at = NoExpiry \/ t < r[key].expire_at)
    THEN Some(r[key].data)
    ELSE None

\* SETEX key ttl data: the key expires ttl seconds from now.
redis_setex(r, key, ttl, data, t) ==
    (key :> [data |-> data, expire_at |-> t + ttl]) @@ r

\* SET key data: the key does not expire.
redis_set(r, key, data) ==
    (key :> [data |-> data, expire_at |-> NoExpiry]) @@ r

redis_delete(r, key) ==
    [k \in DOMAIN r \ {key} |-> r[k]]

\* json.dumps / json.loads: the stored text and the value read back from it.
json_dumps(value) == [json |-> value]
json_loads(data) == data.json

\* datetime.isoformat(): the text of a time.
isoformat(t) == [iso |-> t]

(***************************************************************************)
(* RedisStateStorage: a failing Redis command is logged and swallowed      *)
(***************************************************************************)
storage_get(r, up, key, t) ==
    IF up
    THEN LET data == redis_get(r, key, t)
         IN  IF data # None THEN Some(json_loads(Value(data))) ELSE None
    ELSE None

storage_set(r, up, key, value, ttl, t) ==
    IF up
    THEN IF ttl # 0
         THEN IF ttl > 0 THEN redis_setex(r, key, ttl, json_dumps(value), t)
                         ELSE r   \* SETEX refuses a negative expire time
         ELSE redis_set(r, key, json_dumps(value))
    ELSE r

storage_delete(r, up, key) ==
    IF up THEN redis_delete(r, key) ELSE r

storage_exists(r, up, key, t) ==
    IF up THEN redis_get(r, key, t) # None ELSE FALSE

(***************************************************************************)
(* ConversationState                                                       *)
(***************************************************************************)
default_ttl == session_timeout_minutes * SecondsPerMinute

_get_key_shared(user_id, conversation_type) == <<"conversation", 0, conversation_type>>

_get_key(user_id, conversation_type) == <<"conversation", user_id, conversation_type>>

get_state(r, up, t, user_id) ==
    LET state == storage_get(r, up, _get_key(user_id, "main"), t)
    IN  IF state # None /\ Value(state) # EmptyDict THEN Value(state) ELSE EmptyDict

set_state_absolute_ttl(r, up, t, user_id, state) ==
    LET key == _get_key(user_id, "main")
        data == json_dumps(("updated_at" :> isoformat(t)) @@ state)
    IN  IF redis_get(r, key, t) # None
        THEN (key :> [data |-> data, expire_at |-> r[key].expire_at]) @@ r
        ELSE redis_setex(r, key, default_ttl, data, t)

set_state_never_expiring(r, up, t, user_id, state) ==
    storage_set(r, up, _get_key(user_id, "main"),
                ("updated_at" :> isoformat(t)) @@ state, 0, t)

set_state(r, up, t, user_id, state) ==
    storage_set(r, up, _get_key(user_id, "main"),
                ("updated_at" :> isoformat(t)) @@ state, default_ttl, t)

update_state_keeping_old(r, up, t, user_id, updates) ==
    set_state(r, up, t, user_id, get_state(r, up, t, user_id) @@ updates)

update_state(r, up, t, user_id, updates) ==
    set_state(r, up, t, user_id, updates @@ get_state(r, up, t, user_id))

clear_state_keeping_entry(r, up, user_id) == r

clear_state(r, up, user_id) ==
    storage_delete(r, up, _get_key(user_id, "main"))

set_flow(r, up, t, user_id, flow, data) ==
    LET updates == IF Truthy(data)
                   THEN [current_flow |-> flow, flow_data |-> data]
                   ELSE [current_flow |-> flow]
    IN  update_state(r, up, t, user_id, updates)

get_flow_wrong_key(r, up, t, user_id) ==
    LET state == get_state(r, up, t, user_id)
    IN  IF "flow" \in DOMAIN state THEN Some(state.flow) ELSE None

get_flow(r, up, t, user_id) ==
    LET state == get_state(r, up, t, user_id)
    IN  IF "current_flow" \in DOMAIN state THEN Some(state.current_flow) ELSE None

get_flow_data(r, up, t, user_id) ==
    LET state == get_state(r, up, t, user_id)
    IN  IF "flow_data" \in DOMAIN state THEN state.flow_data ELSE EmptyDict

\* The bot has connected to a reachable, empty Redis database
\* (TelegramBot.initialize).
InitStore ==
    /\ now = 0
    /\ redis = [k \in {} |-> 0]
    /\ redis_up = TRUE
    /\ connected = TRUE
    /\ tasks = [k \in {} |-> 0]

\* Time passes.
Tick ==
    /\ now < MaxTime
    /\ now' = now + 1
    /\ last' = Obs("tick", 0, None, None)
    /\ UNCHANGED <<auth_vars, redis, redis_up, connected, tasks, bearer>>

\* AuthManager.__init__ on a configuration: both sets are copied from the
\* settings and the allow-all flag is computed once, from the configured set.
InitAuth ==
    /\ settings \in [allowed_user_ids : SUBSET Users, admin_user_ids : SUBSET Users]
    /\ allowed_users = settings.allowed_user_ids
    /\ admin_users = settings.admin_user_ids
    /\ allow_all_users = (Cardinality(allowed_users) = 0)
    /\ InitStore
    /\ bearer = NoToken
    /\ last = Obs("init", 0, None, None)

AddUser(u) ==
    /\ allowed_users' = add_user(allowed_users, u).allowed
    /\ last' = Obs("add_user", u, None, add_user(allowed_users, u).ret)
    /\ UNCHANGED <<settings, admin_users, allow_all_users, store_vars, bearer>>

RemoveUser_demoting(u) ==
    /\ allowed_users' = allowed_users \ {u}
    /\ admin_users' = admin_users \ {u}
    /\ last' = Obs("remove_user", u, None, u \in allowed_users)
    /\ UNCHANGED <<settings, allow_all_users, store_vars, bearer>>

RemoveUser(u) ==
    /\ allowed_users' = remove_user(allowed_users, admin_users, u).allowed
    /\ last' = Obs("remove_user", u, None, remove_user(allowed_users, admin_users, u).ret)
    /\ UNCHANGED <<settings, admin_users, allow_all_users, store_vars, bearer>>

IsUserAllowed(u) ==
    /\ last' = Obs("is_user_allowed", u, None, is_user_allowed(allow_all_users, allowed_users, u))
    /\ UNCHANGED <<auth_vars, store_vars, bearer>>

IsUserAdmin(u) ==
    /\ last' = Obs("is_user_admin", u, None, is_user_admin(admin_users, u))
    /\ UNCHANGED <<auth_vars, store_vars, bearer>>

NextAuth ==
    \/ \E u \in Users : AddUser(u)
    \/ \E u \in Users : RemoveUser(u)
    \/ \E u \in Users : IsUserAllowed(u)
    \/ \E u \in Users : IsUserAdmin(u)

SpecAuth == InitAuth /\ [][NextAuth]_vars

(***************************************************************************)
(* Calls of the ConversationState methods                                  *)
(***************************************************************************)
InitSession ==
    /\ settings = [allowed_user_ids |-> {}, admin_user_ids |-> {}]
    /\ allowed_users = settings.allowed_user_ids
    /\ admin_users = settings.admin_user_ids
    /\ allow_all_users = (Cardinality(allowed_users) = 0)
    /\ InitStore
    /\ bearer = NoToken
    /\ last = Obs("init", 0, None, None)

GetState(u) ==
    /\ last' = Obs("get_state", u, None, get_state(redis, redis_up, now, u))
    /\ UNCHANGED <<auth_vars, store_vars, bearer>>

SetState(u, state) ==
    /\ redis' = set_state(redis, redis_up, now, u, state)
    /\ last' = Obs("set_state", u, state, None)
    /\ UNCHANGED <<auth_vars, now, redis_up, connected, tasks, bearer>>

UpdateState(u, updates) ==
    /\ redis' = update_state(redis, redis_up, now, u, updates)
    /\ last' = Obs("update_state", u, updates, None)
    /\ UNCHANGED <<auth_vars, now, redis_up, connected, tasks, bearer>>

ClearState(u) ==
    /\ redis' = clear_state(redis, redis_up, u)
    /\ last' = Obs("clear_state", u, None, None)
    /\ UNCHANGED <<auth_vars, now, redis_up, connected, tasks, bearer>>

SetFlow(u, flow, data) ==
    /\ redis' = set_flow(redis, redis_up, now, u, flow, data)
    /\ last' = Obs("set_flow", u, [flow |-> flow, data |-> data], None)
    /\ UNCHANGED <<auth_vars, now, redis_up, connected, tasks, bearer>>

GetFlow(u) ==
    /\ last' = Obs("get_flow", u, None, get_flow(redis, redis_up, now, u))
    /\ UNCHANGED <<auth_vars, store_vars, bearer>>

GetFlowData(u) ==
    /\ last' = Obs("get_flow_data", u, None, get_flow_data(redis, redis_up, now, u))
    /\ UNCHANGED <<auth_vars, store_vars, bearer>>

NextSession ==
    \/ \E u \in Chatters : GetState(u)
    \/ \E u \in Chatters, state \in States : SetState(u, state)
    \/ \E u \in Chatters, updates \in Updates : UpdateState(u, updates)
    \/ \E u \in Chatters : ClearState(u)
    \/ \E u \in Chatters, flow \in Flows, data \in FlowData : SetFlow(u, flow, data)
    \/ \E u \in Chatters : GetFlow(u)
    \/ \E u \in Chatters : GetFlowData(u)
    \/ Tick

SpecSession == InitSession /\ [][NextSession]_vars

(***************************************************************************)
(* BackendClient                                                           *)
(***************************************************************************)
\* Settings.backend_api_key
backend_api_key == "backend_api_key"

\* What the backend can answer to a GET /api/sources request.
SourcesBodies ==
    { EmptyDict,
      [sources |-> <<>>],
      [sources |-> <<[name |-> "Drive", platform |-> "drive", status |-> "active"]>>],
      [sources |-> <<[string |-> "Drive"]>>],   \* an entry that is not a dict
      [error |-> [text |-> "quota exceeded"]] }

Responses(bodies) ==
    [outcome : {"response"}, status : {200}, body : bodies]
        \cup [outcome : {"response"}, status : {401, 404, 500}, body : {EmptyDict}]
        \cup [outcome : {"timeout", "exception"}, status : {0}, body : {EmptyDict}]

\* AuthManager.get_auth_headers, with the token of create_backend_token's
\* default lifetime of 60 minutes.
get_auth_headers(user_id, t) ==
    [Authorization |-> [scheme |-> "Bearer", token |-> create_backend_token(jwt_secret, user_id, 60, t)],
     X_Bot_User_ID |-> str(user_id),
     X_API_Key |-> backend_api_key]

\* BackendClient._make_request: the request as sent, and the result made of
\* the backend's answer.
Request(method, endpoint, user_id, t) ==
    [method |-> method, endpoint |-> endpoint, user_id |-> user_id,
     headers |-> get_auth_headers(user_id, t)]

\* A response body that response.json() cannot parse.
NotJson == [not_json |-> TRUE]

_make_request(response) ==
    IF response.outcome = "response"
    THEN IF response.status = 200
         THEN IF response.body = NotJson
              THEN [error |-> [text |-> "Request failed"]]   \* json() raises inside the try
              ELSE response.body
         ELSE IF response.status = 401 THEN [error |-> [text |-> "Authentication failed"]]
         ELSE IF response.status = 404 THEN [error |-> [text |-> "Endpoint not found"]]
         ELSE [error |-> [text |-> "Request failed with status", status |-> response.status]]
    ELSE IF response.outcome = "timeout" THEN [error |-> [text |-> "Request timeout"]]
    ELSE [error |-> [text |-> "Request failed"]]

\* What the backend can do with one request: answer with a status and a
\* body, let the 30 seconds pass, or fail below HTTP.
UploadBodies ==
    { EmptyDict,
      [job_id |-> "job1", document_id |-> "doc1"],
      [document_id |-> "doc1"],
      [error |-> [text |-> "quota exceeded"]],
      [error |-> [text |-> "Authentication failed"]],
      NotJson }

BackendAnswers ==
    [outcome : {"response"}, status : {200}, body : UploadBodies]
        \cup [outcome : {"response"}, status : {201, 401, 403, 404, 500}, body : {EmptyDict}]
        \cup [outcome : {"timeout", "exception"}, status : {0}, body : {EmptyDict}]

\* The endpoints of the client's methods that are modelled.
Endpoints == {<<"GET", "/api/sources">>, <<"POST", "/api/upload">>}

\* BackendClient._make_request as a whole.  answers[i] is what the backend
\* would do with the i-th request of this call; the client sends one
\* request, inside the try, and every exception raised there is caught.
make_request_retrying(method, endpoint, user_id, answers, t) ==
    IF answers[1].outcome = "timeout"
    THEN [requests |-> <<Request(method, endpoint, user_id, t), Request(method, endpoint, user_id, t)>>,
          result |-> _make_request(answers[2]),
          raised |-> FALSE]
    ELSE [requests |-> <<Request(method, endpoint, user_id, t)>>,
          result |-> _make_request(answers[1]),
          raised |-> FALSE]

make_request(method, endpoint, user_id, answers, t) ==
    [requests |-> <<Request(method, endpoint, user_id, t)>>,
     result |-> _make_request(answers[1]),
     raised |-> FALSE]

\* One call of the client on behalf of user u.
MakeRequest(u, ep, answers) ==
    LET call == make_request(ep[1], ep[2], u, answers, now)
    IN  /\ last' = [Obs("_make_request", u, answers, Some(call.result))
                       EXCEPT !.calls = call.requests, !.raised = call.raised]
        /\ UNCHANGED <<auth_vars, store_vars, bearer>>

InitBackend ==
    /\ settings = [allowed_user_ids |-> {}, admin_user_ids |-> {1}]
    /\ allowed_users = settings.allowed_user_ids
    /\ admin_users = settings.admin_user_ids
    /\ allow_all_users = (Cardinality(allowed_users) = 0)
    /\ InitStore
    /\ bearer = NoToken
    /\ last = Obs("init", 0, None, None)

NextBackend ==
    \/ \E u \in Chatters, ep \in Endpoints, a1 \in BackendAnswers, a2 \in BackendAnswers :
           MakeRequest(u, ep, <<a1, a2>>)
    \/ Tick

SpecBackend == InitBackend /\ [][NextBackend]_vars

(***************************************************************************)
(* The handlers of the bot, each behind require_auth                       *)
(***************************************************************************)
\* A message shown to the user: sent with reply_text, or put in place of the
\* message that carries the pressed button with edit_message_text.
Msg(via, text) == [via |-> via, text |-> text]

\* The handlers registered in TelegramBot._add_handlers that are modelled.
GuardedOps == {"start_command", "connect_command", "upload_command",
               "sources_command", "button_callback"}

\* The button payloads that are modelled; "view_jobs" has no branch in
\* button_callback.
Payloads == {"connect", "cancel", "upload_file", "refine_search", "view_jobs"}

\* require_auth(func), up to the call of func: whether the wrapper forwards
\* to func, and what it sends when it does not.  has_message says whether
\* update.message is there; it is for a command and is None for a pressed
\* button (a callback query), so that update.message.reply_text raises
\* AttributeError there.  bot_data always holds the auth manager.
require_auth(allow_all, allowed, user_id, has_message) ==
    IF ~is_user_allowed(allow_all, allowed, user_id)
    THEN [forward |-> FALSE,
          sent |-> IF has_message THEN <<Msg("reply_text", "unauthorized")>> ELSE <<>>,
          raised |-> ~has_message]
    ELSE [forward |-> TRUE, sent |-> <<>>, raised |-> FALSE]

\* The wrapper returns, or raises, without calling func.
Rejected(op, u, arg, gate) ==
    /\ last' = [Obs(op, u, arg, None) EXCEPT !.sent = gate.sent, !.raised = gate.raised]
    /\ UNCHANGED <<auth_vars, store_vars, bearer>>

Ran(op, u, arg, sent, calls) ==
    [Obs(op, u, arg, None) EXCEPT !.invoked = TRUE, !.sent = sent, !.calls = calls]

start_command_keeping_state(u, arg) ==
    /\ redis' = redis
    /\ last' = Ran("start_command", u, arg, <<Msg("reply_text", "welcome")>>, <<>>)
    /\ UNCHANGED <<auth_vars, now, redis_up, connected, tasks, bearer>>

start_command(u, arg) ==
    /\ redis' = clear_state(redis, redis_up, u)
    /\ last' = Ran("start_command", u, arg, <<Msg("reply_text", "welcome")>>, <<>>)
    /\ UNCHANGED <<auth_vars, now, redis_up, connected, tasks, bearer>>

connect_command(u, arg) ==
    /\ redis' = set_flow(redis, redis_up, now, u, "connect_platform", None)
    /\ last' = Ran("connect_command", u, arg, <<Msg("reply_text", "connect_menu")>>, <<>>)
    /\ UNCHANGED <<auth_vars, now, redis_up, connected, tasks, bearer>>

upload_command(u, arg) ==
    /\ redis' = set_flow(redis, redis_up, now, u, "upload_file", None)
    /\ last' = Ran("upload_command", u, arg, <<Msg("reply_text", "upload_prompt")>>, <<>>)
    /\ UNCHANGED <<auth_vars, now, redis_up, connected, tasks, bearer>>

\* arg is the backend's answer to the one request the handler makes.
sources_command(u, arg) ==
    LET sources_data == _make_request(arg)
        text == IF sources_data = EmptyDict \/ "error" \in DOMAIN sources_data
                THEN "failed_to_fetch_sources"
                ELSE IF "sources" \notin DOMAIN sources_data \/ sources_data.sources = <<>>
                THEN "no_sources_connected"
                ELSE IF \E i \in DOMAIN sources_data.sources : "string" \in DOMAIN sources_data.sources[i]
                THEN "error_fetching_sources"
                ELSE "sources_list"
    IN  /\ last' = Ran("sources_command", u, arg, <<Msg("reply_text", text)>>,
                       <<Request("GET", "/api/sources", u, now)>>)
        /\ UNCHANGED <<auth_vars, store_vars, bearer>>

\* The payloads of the buttons that the bot itself builds with a source id
\* in them, and one that names a processing step.
PrefixedPayloads == {"fetch_source_s1", "process_s1"}

\* data.startswith(prefix), for the prefixes that button_callback tests.
startswith(data, prefix) ==
    CASE data = "fetch_source_s1" -> prefix \in {"fetch_", "fetch_source_"}
      [] data = "process_s1" -> prefix = "process_"
      [] OTHER -> FALSE

\* handle_fetch_callback: "fetch_sources" lists the sources, "fetch_docs_..."
\* lists documents, any other payload falls through both tests.
handle_fetch_callback(data) ==
    IF data = "fetch_sources" THEN <<Msg("edit_message_text", "select_source")>>
    ELSE IF startswith(data, "fetch_docs_") THEN <<Msg("edit_message_text", "documents")>>
    ELSE <<>>

\* The try block of button_callback: the branches are tested in the order of
\* the code.  handle_process_callback is not defined in the module, so that
\* its branch raises NameError.
button_callback_try(r, up, t, u, data) ==
    IF data = "connect"
    THEN [redis |-> set_flow(r, up, t, u, "connect_platform", None), raised |-> FALSE, calls |-> <<>>,
          sent |-> <<Msg("edit_message_text", "connect_menu")>>]
    ELSE IF data = "cancel"
    THEN [redis |-> clear_state(r, up, u), raised |-> FALSE, calls |-> <<>>,
          sent |-> <<Msg("edit_message_text", "operation_cancelled")>>]
    ELSE IF startswith(data, "fetch_")
    THEN [redis |-> r, raised |-> FALSE, calls |-> <<>>, sent |-> handle_fetch_callback(data)]
    ELSE IF startswith(data, "process_")
    THEN [redis |-> r, raised |-> TRUE, calls |-> <<>>, sent |-> <<>>]
    ELSE IF data = "upload_file"
    THEN [redis |-> set_flow(r, up, t, u, "upload_file", None), raised |-> FALSE, calls |-> <<>>,
          sent |-> <<Msg("edit_message_text", "upload_prompt")>>]
    ELSE IF data = "refine_search"
    THEN [redis |-> set_flow(r, up, t, u, "refine_search", None), raised |-> FALSE, calls |-> <<>>,
          sent |-> <<Msg("edit_message_text", "refine_prompt")>>]
    ELSE IF startswith(data, "fetch_source_")
    THEN [redis |-> r, raised |-> FALSE,
          calls |-> <<[data |-> [source_id |-> "s1", mode |-> "incremental"]]
                          @@ Request("POST", "/api/sync", u, t)>>,
          sent |-> <<Msg("edit_message_text", "fetching_from_source"),
                     Msg("edit_message_text", "fetch_outcome")>>]
    ELSE [redis |-> r, raised |-> FALSE, calls |-> <<>>,
          sent |-> <<Msg("edit_message_text", "unknown_command")>>]

\* arg is query.data, the payload of the pressed button.  An exception of
\* the try block is logged and answered with the generic failure message.
button_callback(u, arg) ==
    LET body == button_callback_try(redis, redis_up, now, u, arg)
    IN  /\ redis' = body.redis
        /\ last' = Ran("button_callback", u, arg,
                       IF body.raised
                       THEN body.sent \o <<Msg("edit_message_text", "error_occurred")>>
                       ELSE body.sent,
                       body.calls)
        /\ UNCHANGED <<auth_vars, now, redis_up, connected, tasks, bearer>>

\* arg keeps the session state the user had when the command arrived.
StartCommand(u) ==
    LET gate == require_auth(allow_all_users, allowed_users, u, TRUE)
        arg == [state |-> get_state(redis, redis_up, now, u)]
    IN  IF gate.forward THEN start_command(u, arg)
        ELSE Rejected("start_command", u, arg, gate)

ConnectCommand(u) ==
    LET gate == require_auth(allow_all_users, allowed_users, u, TRUE)
    IN  IF gate.forward THEN connect_command(u, None)
        ELSE Rejected("connect_command", u, None, gate)

UploadCommand(u) ==
    LET gate == require_auth(allow_all_users, allowed_users, u, TRUE)
    IN  IF gate.forward THEN upload_command(u, None)
        ELSE Rejected("upload_command", u, None, gate)

SourcesCommand(u, response) ==
    LET gate == require_auth(allow_all_users, allowed_users, u, TRUE)
    IN  IF gate.forward THEN sources_command(u, response)
        ELSE Rejected("sources_command", u, response, gate)

ButtonCallback(u, data) ==
    LET gate == require_auth(allow_all_users, allowed_users, u, FALSE)
    IN  IF gate.forward THEN button_callback(u, data)
        ELSE Rejected("button_callback", u, data, gate)

\* The bot after startup, on one of the configurations that name user 1 as
\* the only admin.
Init ==
    /\ settings \in [allowed_user_ids : {{}, {1}, {1, 2}, {2, 3}}, admin_user_ids : {{1}}]
    /\ allowed_users = settings.allowed_user_ids
    /\ admin_users = settings.admin_user_ids
    /\ allow_all_users = (Cardinality(allowed_users) = 0)
    /\ InitStore
    /\ bearer = NoToken
    /\ last = Obs("init", 0, None, None)

Next ==
    \/ \E u \in Chatters : StartCommand(u)
    \/ \E u \in Chatters : ConnectCommand(u)
    \/ \E u \in Chatters : UploadCommand(u)
    \/ \E u \in Chatters, response \in Responses(SourcesBodies) : SourcesCommand(u, response)
    \/ \E u \in Chatters, data \in Payloads : ButtonCallback(u, data)
    \/ \E u \in Users : AddUser(u)
    \/ \E u \in Users : RemoveUser(u)
    \/ Tick

Spec == Init /\ [][Next]_vars

\* C1: when a user who is not allowed (allow-all mode off, not in the allowed
\* set) triggers a handler wrapped by require_auth, the wrapped handler is
\* not invoked, no backend call is made, neither the session store nor the
\* authorization sets change, and exactly one message, the rejection, is
\* sent.
C1_UnauthorizedRejected ==
    [][ (last'.op \in GuardedOps
           /\ ~is_user_allowed(allow_all_users, allowed_users, last'.user))
            => /\ ~last'.invoked
               /\ last'.calls = <<>>
               /\ redis' = redis
               /\ <<allowed_users', admin_users', allow_all_users'>>
                      = <<allowed_users, admin_users, allow_all_users>>
               /\ Len(last'.sent) = 1
               /\ last'.sent[1].text = "unauthorized"
      ]_vars

(***************************************************************************)
(* Properties of the authorization gate, checked under SpecAuth            *)
(***************************************************************************)

\* C2: in every state reached by add_user and remove_user calls,
\* is_user_allowed(u) is true for every u currently in the allowed set, and
\* a call of is_user_allowed for such a u has returned true.
C2_MembersAreAllowed ==
    /\ \A u \in allowed_users : is_user_allowed(allow_all_users, allowed_users, u)
    /\ (last.op = "is_user_allowed" /\ last.user \in allowed_users) => last.ret = TRUE

\* The allowed set was changed after startup, allow-all mode is off, and
\* is_user_allowed was asked about a member.
C2_Witness ==
    /\ ~allow_all_users
    /\ allowed_users # settings.allowed_user_ids
    /\ last.op = "is_user_allowed"
    /\ last.user \in allowed_users

C4_AdminNeverRemoved ==
    [][ /\ \A u \in Users :
              (last'.op = "remove_user" /\ last'.user = u /\ u \in admin_users)
                  => (last'.ret = FALSE /\ allowed_users' = allowed_users)
        /\ \A u \in admin_users \cap allowed_users :
              /\ u \in admin_users' \cap allowed_users'
              /\ is_user_allowed(allow_all_users', allowed_users', u)
      ]_vars

\* remove_user was just refused for a user who is both admin and allowed.
C4_Witness ==
    /\ last.op = "remove_user"
    /\ last.user \in admin_users \cap allowed_users
    /\ last.ret = FALSE

\* C5: add_user(u) returns true and adds exactly u when u is not in the
\* allowed set, returns false and changes nothing when it is; a second
\* add_user(u) right after returns false and leaves the set as it is.
C5_AddUser ==
    [][ \A u \in Users :
            (last'.op = "add_user" /\ last'.user = u)
                => /\ IF u \notin allowed_users
                      THEN last'.ret = TRUE /\ allowed_users' = allowed_users \cup {u}
                      ELSE last'.ret = FALSE /\ allowed_users' = allowed_users
                   /\ add_user(allowed_users', u).ret = FALSE
                   /\ add_user(allowed_users', u).allowed = allowed_users'
                   /\ admin_users' = admin_users
      ]_vars

\* add_user just returned false for a user whom an earlier add_user added.
C5_Witness ==
    /\ last.op = "add_user"
    /\ last.ret = FALSE
    /\ last.user \notin settings.allowed_user_ids

\* C6: remove_user(u) for a non-admin u in the allowed set returns true and
\* removes exactly u; for a u not in the allowed set it returns false and
\* changes nothing.  The admin set is unchanged in both cases.
C6_RemoveUser ==
    [][ \A u \in Users :
            (last'.op = "remove_user" /\ last'.user = u)
                => /\ (u \in allowed_users /\ u \notin admin_users)
                          => (last'.ret = TRUE /\ allowed_users' = allowed_users \ {u})
                   /\ u \notin allowed_users
                          => (last'.ret = FALSE /\ allowed_users' = allowed_users)
                   /\ admin_users' = admin_users
      ]_vars

\* A non-admin user was just removed and other users are still in the set.
C6_Witness ==
    /\ last.op = "remove_user"
    /\ last.ret = TRUE
    /\ last.user \notin allowed_users
    /\ allowed_users # {}
    /\ admin_users # {}

(***************************************************************************)
(* Properties of the conversation state, checked under SpecSession         *)
(***************************************************************************)

\* C7: right after set_flow(u, f), get_flow(u) returns f, whatever the entry
\* of u held before; right after clear_state(u), get_flow(u) returns none.
C7_SetFlowThenGetFlow ==
    /\ last.op = "set_flow"
           => get_flow(redis, redis_up, now, last.user) = Some(last.arg.flow)
    /\ last.op = "clear_state"
           => get_flow(redis, redis_up, now, last.user) = None

\* set_flow just ran on an entry that an earlier write had created.
C7_Witness ==
    /\ last.op = "set_flow"
    /\ "last_upload_job" \in DOMAIN get_state(redis, redis_up, now, last.user)

\* C8: an entry written at time w (its updated_at stamp) is what get_state
\* returns at every time before w + TTL while it is the stored entry, and
\* from w + TTL on get_state returns {} and get_flow returns none.
C8_EntryExpiresAfterTtl ==
    \A u \in Chatters :
        LET key == _get_key(u, "main")
        IN  key \in DOMAIN redis =>
                LET state == json_loads(redis[key].data)
                    w == state.updated_at.iso
                IN  IF now < w + default_ttl
                    THEN get_state(redis, redis_up, now, u) = state
                    ELSE /\ get_state(redis, redis_up, now, u) = EmptyDict
                         /\ get_flow(redis, redis_up, now, u) = None

\* One user's entry has run out of time and get_state just returned {} for
\* it, while another user's entry is in its last tick and still readable.
C8_Witness ==
    \E u, v \in Chatters :
        /\ _get_key(u, "main") \in DOMAIN redis
        /\ _get_key(v, "main") \in DOMAIN redis
        /\ now >= json_loads(redis[_get_key(u, "main")].data).updated_at.iso + default_ttl
        /\ now = json_loads(redis[_get_key(v, "main")].data).updated_at.iso + default_ttl - 1
        /\ last.op = "get_state" /\ last.user = u /\ last.ret = EmptyDict

\* C9: every write to a user's entry (set_state, update_state, set_flow)
\* sets the expiry of the entry to the time of the write plus the session
\* timeout; the reads get_state, get_flow and get_flow_data leave the store,
\* and so every expiry, as it was.
C9_SlidingTtl ==
    [][ /\ \A u \in Chatters :
              (last'.op \in {"set_state", "update_state", "set_flow"} /\ last'.user = u)
                  => /\ _get_key(u, "main") \in DOMAIN redis'
                     /\ redis'[_get_key(u, "main")].expire_at = now + default_ttl
                     /\ \A v \in Chatters \ {u} :
                            /\ (_get_key(v, "main") \in DOMAIN redis') = (_get_key(v, "main") \in DOMAIN redis)
                            /\ _get_key(v, "main") \in DOMAIN redis
                                   => redis'[_get_key(v, "main")] = redis[_get_key(v, "main")]
        /\ last'.op \in {"get_state", "get_flow", "get_flow_data"} => redis' = redis
      ]_vars

\* update_state just rewrote, after some time had passed, an entry that an
\* earlier write had created; its expiry is a full timeout away again.
C9_Witness ==
    /\ last.op = "update_state"
    /\ now >= 1
    /\ "flow_data" \in DOMAIN get_state(redis, redis_up, now, last.user)
    /\ redis[_get_key(last.user, "main")].expire_at = now + default_ttl

(***************************************************************************)
(* Issuing, altering and verifying backend tokens                          *)
(***************************************************************************)
InitToken ==
    /\ settings = [allowed_user_ids |-> {}, admin_user_ids |-> {}]
    /\ allowed_users = settings.allowed_user_ids
    /\ admin_users = settings.admin_user_ids
    /\ allow_all_users = (Cardinality(allowed_users) = 0)
    /\ InitStore
    /\ bearer = NoToken
    /\ last = Obs("init", 0, None, None)

CreateBackendToken(u, expires_minutes) ==
    /\ bearer' = [value |-> create_backend_token(jwt_secret, u, expires_minutes, now),
                  issued_to |-> u, how |-> "issued"]
    /\ last' = Obs("create_backend_token", u, expires_minutes, None)
    /\ UNCHANGED <<auth_vars, store_vars>>

\* The holder of an issued token replaces its signature by one made with
\* another key.
TamperSignature ==
    /\ bearer.how = "issued"
    /\ bearer' = [bearer EXCEPT
                    !.value.signature = hmac_sha256(other_key, bearer.value.header, bearer.value.payload),
                    !.how = "tampered"]
    /\ last' = Obs("tamper_signature", bearer.issued_to, None, None)
    /\ UNCHANGED <<auth_vars, store_vars>>

\* The holder of an issued token rewrites its subject or extends its expiry
\* and keeps the signature.
TamperPayload(u, exp) ==
    /\ bearer.how = "issued"
    /\ [bearer.value.payload EXCEPT !.sub = str(u), !.exp = exp] # bearer.value.payload
    /\ bearer' = [bearer EXCEPT !.value.payload.sub = str(u), !.value.payload.exp = exp,
                                !.how = "tampered"]
    /\ last' = Obs("tamper_payload", bearer.issued_to, None, None)
    /\ UNCHANGED <<auth_vars, store_vars>>

\* The client presents a text that is not a token.
PresentMalformed ==
    /\ bearer' = NoToken
    /\ last' = Obs("present_malformed", 0, None, None)
    /\ UNCHANGED <<auth_vars, store_vars>>

VerifyBackendToken ==
    /\ last' = Obs("verify_backend_token", bearer.issued_to, bearer.how,
                   verify_backend_token(jwt_secret, bearer.value, now))
    /\ UNCHANGED <<auth_vars, store_vars, bearer>>

NextToken ==
    \/ \E u \in Users, m \in 0..MaxExpiresMinutes : CreateBackendToken(u, m)
    \/ TamperSignature
    \/ \E u \in Users, exp \in 0..(MaxTime + 1) : TamperPayload(u, exp)
    \/ PresentMalformed
    \/ VerifyBackendToken
    \/ Tick

SpecToken == InitToken /\ [][NextToken]_vars

\* C10: verifying the token created for u before its expiry returns claims
\* whose subject is the text of u's id; an issued token verified after its
\* expiry, a token whose signature no longer matches its content, and a text
\* that is not a token all yield none; what is returned is never anything
\* but none or the whole claim set that was signed.
C10_TokenRoundTrip ==
    last.op = "verify_backend_token" =>
        /\ (bearer.how = "issued" /\ now < bearer.value.payload.exp)
               => /\ last.ret # None
                  /\ Value(last.ret).sub = str(bearer.issued_to)
                  /\ int(Value(last.ret).sub) = bearer.issued_to
        /\ (bearer.how = "issued" /\ now > bearer.value.payload.exp) => last.ret = None
        /\ bearer.how \in {"tampered", "malformed"} => last.ret = None
        /\ last.ret # None
               => /\ DOMAIN Value(last.ret) = {"sub", "exp", "iat", "type"}
                  /\ Value(last.ret) = bearer.value.payload
                  /\ Value(last.ret).type = "bot_user"

\* A token was issued, time has passed, and it was just verified within its
\* lifetime.
C10_Witness ==
    /\ last.op = "verify_backend_token"
    /\ bearer.how = "issued"
    /\ bearer.value.payload.iat < now
    /\ now < bearer.value.payload.exp
    /\ last.ret # None

(***************************************************************************)
(* Properties of the backend client, checked under SpecBackend             *)
(***************************************************************************)

\* C11: the backend call maps status 200 to success with the parsed body,
\* 401 to auth_failed, 404 to not_found, a timeout to timeout and every
\* other status s to http_error retaining s; and the outcomes of answers of
\* distinct classes can be told apart: no answer of another class yields
\* the outcome this call returned.
C11_OutcomeKinds ==
    last.op = "_make_request" =>
        LET a == last.arg[1]
            result == Value(last.ret)
            Class(x) == IF x.outcome = "timeout" THEN "timeout"
                        ELSE IF x.outcome = "exception" THEN "transport_error"
                        ELSE IF x.status = 200
                        THEN (IF x.body = NotJson THEN "transport_error" ELSE "success")
                        ELSE IF x.status = 401 THEN "auth_failed"
                        ELSE IF x.status = 404 THEN "not_found"
                        ELSE "http_error"
        IN  /\ Class(a) = "success" => result = a.body
            /\ Class(a) = "auth_failed" => result = [error |-> [text |-> "Authentication failed"]]
            /\ Class(a) = "not_found" => result = [error |-> [text |-> "Endpoint not found"]]
            /\ Class(a) = "timeout" => result = [error |-> [text |-> "Request timeout"]]
            /\ Class(a) = "http_error"
                   => /\ "error" \in DOMAIN result
                      /\ "status" \in DOMAIN result.error
                      /\ result.error.status = a.status
            /\ \A b \in BackendAnswers : Class(b) # Class(a) => _make_request(b) # result

\* C12: every call of the backend client sends at most one HTTP request,
\* whatever the first answer was and whatever a second request would have
\* brought, and returns one outcome, the one made of the first answer,
\* without raising.
C12_OneAttemptOneOutcome ==
    last.op = "_make_request" =>
        /\ Len(last.calls) <= 1
        /\ ~last.raised
        /\ last.ret # None
        /\ Value(last.ret) = _make_request(last.arg[1])

\* A call timed out although a second request would have been answered
\* with status 200.
C12_Witness ==
    /\ last.op = "_make_request"
    /\ last.arg[1].outcome = "timeout"
    /\ last.arg[2].outcome = "response"
    /\ last.arg[2].status = 200
    /\ Value(last.ret) = [error |-> [text |-> "Request timeout"]]

(***************************************************************************)
(* Text messages: handlers/messages.py                                     *)
(***************************************************************************)
\* A text is the sequence of its characters.  The texts a user sends: one
\* that starts with a slash without being a bot command, two that are too
\* short once stripped, a greeting, and a query.
Texts ==
    { <<"/", " ", "h", "i">>,
      <<"o", "k">>,
      <<" ", "h", "i", " ">>,
      <<"H", "e", "y">>,
      <<"q", "3", " ", "s", "a", "l", "e", "s">> }

\* str.startswith('/')
startswith_slash(text) == Len(text) > 0 /\ text[1] = "/"

\* str.strip()
RECURSIVE strip(_)
strip(text) ==
    IF text = <<>> THEN text
    ELSE IF Head(text) = " " THEN strip(Tail(text))
    ELSE IF text[Len(text)] = " " THEN strip(SubSeq(text, 1, Len(text) - 1))
    ELSE text

\* str.lower(), on the letters of Texts and AdminArgs
lower(text) ==
    [i \in DOMAIN text |-> IF text[i] = "H" THEN "h"
                           ELSE IF text[i] = "S" THEN "s"
                           ELSE text[i]]

non_search_phrases ==
    { <<"h", "e", "l", "l", "o">>, <<"h", "i">>, <<"h", "e", "y">>,
      <<"t", "h", "a", "n", "k", "s">>, <<"t", "h", "a", "n", "k", " ", "y", "o", "u">>,
      <<"o", "k">>, <<"o", "k", "a", "y">>, <<"y", "e", "s">>, <<"n", "o">>,
      <<"s", "u", "r", "e">>, <<"f", "i", "n", "e">>, <<"g", "o", "o", "d">>,
      <<"g", "r", "e", "a", "t">>, <<"n", "i", "c", "e">> }

\* What the backend can do with a POST /api/search request.
SearchAnswers ==
    [outcome : {"response"}, status : {200},
     body : {EmptyDict, [answer |-> "found", results |-> <<>>], [results |-> <<>>]}]
        \cup [outcome : {"response"}, status : {500}, body : {EmptyDict}]
        \cup [outcome : {"timeout"}, status : {0}, body : {EmptyDict}]

\* BackendClient.search
search(user_id, answers, t) == make_request("POST", "/api/search", user_id, answers, t)

\* commands.format_search_response: the kind of text it builds.
format_search_response(result) ==
    IF "answer" \notin DOMAIN result /\ ("results" \notin DOMAIN result \/ result.results = <<>>)
    THEN "no_results_found"
    ELSE "search_results"

\* answer is what the backend does with the search request, if one is sent.
handle_natural_language_search(user_id, query, answer, t) ==
    IF Len(strip(query)) < 3
    THEN [sent |-> <<Msg("reply_text", "query_too_short")>>, calls |-> <<>>, raised |-> FALSE]
    ELSE IF strip(lower(query)) \in non_search_phrases
    THEN [sent |-> <<Msg("reply_text", "hello")>>, calls |-> <<>>, raised |-> FALSE]
    ELSE LET call == search(user_id, <<answer>>, t)
             result == call.result
         IN  [sent |-> <<Msg("reply_text", "searching")>>
                       \o (IF result = EmptyDict \/ "error" \in DOMAIN result
                           THEN <<Msg("reply_text", "search_error")>>
                           ELSE <<Msg("reply_text", format_search_response(result)),
                                  Msg("reply_text", "what_next")>>),
              calls |-> call.requests,
              raised |-> FALSE]

handle_refined_search(r, up, t, user_id, query, answer) ==
    LET call == search(user_id, <<answer>>, t)
        result == call.result
    IN  [redis |-> clear_state(r, up, user_id),
         sent |-> <<Msg("reply_text", "refined_searching"),
                    IF result # EmptyDict /\ "error" \notin DOMAIN result
                    THEN Msg("reply_text", "refined_search_results")
                    ELSE Msg("reply_text", "refined_search_failed")>>,
         calls |-> call.requests,
         raised |-> FALSE]

\* The body of handle_text_message: the store it leaves, what it sends and
\* which backend calls it makes.
handle_text_message_searching_in_upload(r, up, t, user_id, text, answer) ==
    IF startswith_slash(text)
    THEN [redis |-> r, sent |-> <<>>, calls |-> <<>>, raised |-> FALSE]
    ELSE LET current_flow == get_flow(r, up, t, user_id)
         IN  IF current_flow = Some("refine_search")
             THEN handle_refined_search(r, up, t, user_id, text, answer)
             ELSE [redis |-> r] @@ handle_natural_language_search(user_id, text, answer, t)

handle_text_message_keeping_state(r, up, t, user_id, text, answer) ==
    IF startswith_slash(text)
    THEN [redis |-> r, sent |-> <<>>, calls |-> <<>>, raised |-> FALSE]
    ELSE LET current_flow == get_flow(r, up, t, user_id)
         IN  IF current_flow = Some("refine_search")
             THEN handle_refined_search(r, up, t, user_id, text, answer)
             ELSE IF current_flow = Some("upload_file")
             THEN [redis |-> r, sent |-> <<Msg("reply_text", "waiting_for_file_upload")>>,
                   calls |-> <<>>, raised |-> FALSE]
             ELSE [redis |-> r] @@ handle_natural_language_search(user_id, text, answer, t)

handle_text_message(r, up, t, user_id, text, answer) ==
    IF startswith_slash(text)
    THEN [redis |-> r, sent |-> <<>>, calls |-> <<>>, raised |-> FALSE]
    ELSE LET current_flow == get_flow(r, up, t, user_id)
         IN  IF current_flow = Some("refine_search")
             THEN handle_refined_search(r, up, t, user_id, text, answer)
             ELSE IF current_flow = Some("upload_file")
             THEN [redis |-> r, sent |-> <<Msg("reply_text", "waiting_for_file_upload")>>,
                   calls |-> <<>>, raised |-> FALSE]
             ELSE [redis |-> IF current_flow # None /\ Value(current_flow) # ""
                             THEN clear_state(r, up, user_id)
                             ELSE r]
                      @@ handle_natural_language_search(user_id, text, answer, t)

(***************************************************************************)
(* File uploads: handlers/files.py                                         *)
(***************************************************************************)
\* Settings.max_file_size_mb, and the number of bytes in a megabyte
\* (1024 * 1024 in the code).
max_file_size_mb == 2
BytesPerMb == 2

\* The largest file that passes the size check, in bytes.
LimitBytes == max_file_size_mb * BytesPerMb

FileName(stem, ext) == [stem |-> stem, ext |-> ext]

\* The attachments a user sends: what Telegram tells about them.  file_name
\* and file_size are optional in the Bot API.
Files ==
    [kind : {"document"}, file_name : {Some(FileName("report", ".pdf"))},
     file_size : {Some(0), Some(1), Some(LimitBytes), Some(LimitBytes + 1),
                  Some(LimitBytes + BytesPerMb)}]
        \cup [kind : {"document"}, file_name : {Some(FileName("setup", ".exe")), None},
              file_size : {Some(1)}]
        \cup [kind : {"photo"}, file_name : {None}, file_size : {None, Some(LimitBytes + 1)}]
        \cup [kind : {"voice"}, file_name : {None}, file_size : {Some(1)}]
        \cup [kind : {"audio"}, file_name : {None}, file_size : {Some(LimitBytes + 1), Some(1)}]

\* What the backend can do with a POST /api/upload request.
UploadAnswers ==
    [outcome : {"response"}, status : {200},
     body : {EmptyDict, [job_id |-> "job1", document_id |-> "doc1"],
             [document_id |-> "doc1"], [error |-> [text |-> "quota exceeded"]]}]
        \cup [outcome : {"response"}, status : {500}, body : {EmptyDict}]
        \cup [outcome : {"timeout"}, status : {0}, body : {EmptyDict}]

supported_extensions ==
    { ".pdf", ".doc", ".docx", ".txt", ".rtf", ".jpg", ".jpeg", ".png", ".gif", ".bmp",
      ".mp3", ".wav", ".ogg", ".m4a", ".csv", ".xlsx", ".xls", ".md", ".html", ".xml", ".json" }

get_file_extension(filename) == IF filename = None THEN "" ELSE Value(filename).ext

is_supported_file_type(filename) ==
    IF filename = None THEN FALSE ELSE get_file_extension(filename) \in supported_extensions

\* The name handle_file_upload gives the attachment.
upload_filename(file) ==
    IF file.kind = "document" THEN file.file_name
    ELSE IF file.kind = "photo" THEN Some(FileName("image", ".jpg"))
    ELSE IF file.kind = "voice" THEN Some(FileName("voice", ".ogg"))
    ELSE IF file.file_name # None THEN file.file_name
    ELSE Some(FileName("audio", ".mp3"))

\* file_size_mb > settings.max_file_size_mb, where file_size_mb is
\* file_size / (1024 * 1024), or 0 when Telegram gave no size.
too_large_rounding_down(file, max_mb) ==
    (IF file.file_size # None THEN Value(file.file_size) \div BytesPerMb ELSE 0) > max_mb

too_large(file, max_mb) ==
    (IF file.file_size # None THEN Value(file.file_size) ELSE 0) > max_mb * BytesPerMb

\* BackendClient.upload_file
upload_file(user_id, answers, t) == make_request("POST", "/api/upload", user_id, answers, t)

\* The body of handle_file_upload.  download_ok says whether Telegram hands
\* the file out (get_file and download_as_bytearray do not raise); answer is
\* what the backend does with the upload request, if one is sent.  ret is
\* the result of the upload call.
handle_file_upload(r, up, t, user_id, file, download_ok, answer, max_mb) ==
    LET filename == upload_filename(file)
        done(sent) == [redis |-> r, sent |-> sent, calls |-> <<>>, ret |-> None, raised |-> FALSE]
    IN  IF get_flow(r, up, t, user_id) # Some("upload_file")
        THEN done(<<Msg("reply_text", "use_upload_first")>>)
        ELSE IF too_large(file, max_mb)
        THEN done(<<Msg("reply_text", "file_too_large")>>)
        ELSE IF ~is_supported_file_type(filename)
        THEN done(<<Msg("reply_text", "unsupported_file_extension")>>)
        ELSE IF ~download_ok
        THEN [redis |-> clear_state(r, up, user_id),
              sent |-> <<Msg("reply_text", "uploading"), Msg("edit_text", "upload_error")>>,
              calls |-> <<>>, ret |-> None, raised |-> FALSE]
        ELSE LET call == upload_file(user_id, <<answer>>, t)
                 result == call.result
                 ok == result # EmptyDict /\ "error" \notin DOMAIN result
                 job_id == IF ok /\ "job_id" \in DOMAIN result THEN Some(result.job_id) ELSE None
                 stored == IF job_id # None
                           THEN update_state(r, up, t, user_id,
                                    [last_upload_job |-> Value(job_id),
                                     last_upload_file |-> filename,
                                     last_upload_document_id |-> result.document_id])
                           ELSE r
             IN  [redis |-> clear_state(stored, up, user_id),   \* finally
                  sent |-> IF ok
                           THEN <<Msg("reply_text", "uploading"),
                                  Msg("edit_text", IF job_id # None THEN "uploaded_processing"
                                                   ELSE "uploaded_indexed"),
                                  Msg("send_message", "quick_actions")>>
                           ELSE <<Msg("reply_text", "uploading"), Msg("edit_text", "upload_failed")>>,
                  calls |-> call.requests,
                  ret |-> Some(result),
                  raised |-> FALSE]

(***************************************************************************)
(* Job completion callbacks: server.py                                     *)
(***************************************************************************)
\* The bodies of POST /api/job-callback (JobCallback).
JobCallbacks ==
    [job_id : {"job1", "job2"}, status : {"completed"}, result : {Some([indexed |-> 1])}, error : {None}]
        \cup [job_id : {"job1", "job2"}, status : {"failed", "running"}, result : {None},
              error : {None, Some("parse error")}]

\* A notification of a job's status, addressed to a chat.
Notification(to, text) == [via |-> "send_message", text |-> text, to |-> to]

\* process_job_callback: the text it builds, what it sends, whether it lets
\* an exception out.
process_job_callback_broadcasting(callback_data) ==
    LET message == IF callback_data.status = "completed" THEN "job_completed"
                   ELSE IF callback_data.status = "failed" THEN "job_failed"
                   ELSE "job_status_update"
    IN  [message |-> message,
         sent |-> [i \in 1..Cardinality(Chatters) |-> Notification(i, message)],
         raised |-> FALSE]

process_job_callback(callback_data) ==
    LET message == IF callback_data.status = "completed" THEN "job_completed"
                   ELSE IF callback_data.status = "failed" THEN "job_failed"
                   ELSE "job_status_update"
    IN  [message |-> message, sent |-> <<>>, raised |-> FALSE]

(***************************************************************************)
(* The chat: commands, buttons, texts, files and job callbacks             *)
(***************************************************************************)
\* The commands TelegramBot._add_handlers registers a CommandHandler for.
CommandHandlers ==
    {"start", "help", "connect", "search", "upload", "sources", "fetch", "process",
     "status", "admin"}

\* A text message that is not a bot command reaches handle_text_message.
\* arg keeps the text, the backend's answer and the flow the user was in.
HandleTextMessage(u, text, answer) ==
    LET gate == require_auth(allow_all_users, allowed_users, u, TRUE)
        arg == [text |-> text, answer |-> answer, flow |-> get_flow(redis, redis_up, now, u)]
        h == handle_text_message(redis, redis_up, now, u, text, answer)
    IN  IF gate.forward
        THEN /\ redis' = h.redis
             /\ last' = [Ran("handle_text_message", u, arg, h.sent, h.calls)
                            EXCEPT !.raised = h.raised]
             /\ UNCHANGED <<auth_vars, now, redis_up, connected, tasks, bearer>>
        ELSE Rejected("handle_text_message", u, arg, gate)

HandleFileUpload_always_clearing(u, file, download_ok, answer) ==
    LET gate == require_auth(allow_all_users, allowed_users, u, TRUE)
        arg == [file |-> file, download_ok |-> download_ok, answer |-> answer,
                flow |-> get_flow(redis, redis_up, now, u)]
        h == handle_file_upload(redis, redis_up, now, u, file, download_ok, answer,
                                max_file_size_mb)
    IN  IF gate.forward
        THEN /\ redis' = clear_state(h.redis, redis_up, u)
             /\ last' = [Ran("handle_file_upload", u, arg, h.sent, h.calls)
                            EXCEPT !.ret = h.ret, !.raised = h.raised]
             /\ UNCHANGED <<auth_vars, now, redis_up, connected, tasks, bearer>>
        ELSE Rejected("handle_file_upload", u, arg, gate)

\* A document, photo, voice or audio message reaches handle_file_upload.
HandleFileUpload(u, file, download_ok, answer) ==
    LET gate == require_auth(allow_all_users, allowed_users, u, TRUE)
        arg == [file |-> file, download_ok |-> download_ok, answer |-> answer,
                flow |-> get_flow(redis, redis_up, now, u)]
        h == handle_file_upload(redis, redis_up, now, u, file, download_ok, answer,
                                max_file_size_mb)
    IN  IF gate.forward
        THEN /\ redis' = h.redis
             /\ last' = [Ran("handle_file_upload", u, arg, h.sent, h.calls)
                            EXCEPT !.ret = h.ret, !.raised = h.raised]
             /\ UNCHANGED <<auth_vars, now, redis_up, connected, tasks, bearer>>
        ELSE Rejected("handle_file_upload", u, arg, gate)

\* A bot command for which no CommandHandler is registered: the text handler
\* is registered with ~filters.COMMAND, so that no handler runs at all.
CommandWithoutHandler(u, command) ==
    /\ command \notin CommandHandlers
    /\ last' = Obs("command_without_handler", u, command, None)
    /\ UNCHANGED <<auth_vars, store_vars, bearer>>

\* POST /api/job-callback: job_callback hands the body to
\* process_job_callback as a background task.
JobCallback(callback_data) ==
    LET p == process_job_callback(callback_data)
    IN  /\ last' = [Obs("process_job_callback", 0, callback_data, None)
                       EXCEPT !.invoked = TRUE, !.sent = p.sent, !.raised = p.raised]
        /\ UNCHANGED <<auth_vars, store_vars, bearer>>

\* The bot after startup, open to everybody or to user 1 only.
InitChat ==
    /\ settings \in [allowed_user_ids : {{}, {1}}, admin_user_ids : {{1}}]
    /\ allowed_users = settings.allowed_user_ids
    /\ admin_users = settings.admin_user_ids
    /\ allow_all_users = (Cardinality(allowed_users) = 0)
    /\ InitStore
    /\ bearer = NoToken
    /\ last = Obs("init", 0, None, None)

NextChat ==
    \/ \E u \in Chatters : ConnectCommand(u)
    \/ \E u \in Chatters : UploadCommand(u)
    \/ \E u \in Chatters, data \in Payloads : ButtonCallback(u, data)
    \/ \E u \in Chatters, text \in Texts, answer \in SearchAnswers :
           HandleTextMessage(u, text, answer)
    \/ \E u \in Chatters, file \in Files, download_ok \in BOOLEAN, answer \in UploadAnswers :
           HandleFileUpload(u, file, download_ok, answer)
    \/ \E u \in Chatters : CommandWithoutHandler(u, "cancel")
    \/ \E callback_data \in JobCallbacks : JobCallback(callback_data)

SpecChat == InitChat /\ [][NextChat]_vars

(***************************************************************************)
(* Properties of the chat, checked under SpecChat                          *)
(***************************************************************************)

\* C13: when an upload made for user A has returned a success payload with
\* job id j, a completion signal for j that arrives next makes the bot send
\* a notification, and every notification it sends goes to A.
C13_CompletionNotifiesOwner ==
    [][ (/\ last.op = "handle_file_upload"
         /\ last.ret # None
         /\ "job_id" \in DOMAIN Value(last.ret)
         /\ "error" \notin DOMAIN Value(last.ret)
         /\ last'.op = "process_job_callback"
         /\ last'.arg.job_id = Value(last.ret).job_id)
            => /\ Len(last'.sent) >= 1
               /\ \A i \in DOMAIN last'.sent : last'.sent[i].to = last.user
      ]_vars

C15_JobRecordedAtReturn ==
    (/\ last.op = "handle_file_upload"
     /\ last.ret # None
     /\ "job_id" \in DOMAIN Value(last.ret)
     /\ "error" \notin DOMAIN Value(last.ret))
        => LET state == get_state(redis, redis_up, now, last.user)
           IN  /\ "last_upload_job" \in DOMAIN state
               /\ state.last_upload_job = Value(last.ret).job_id

\* C16: when an allowed user sends a text that does not start with a slash
\* while their flow is upload_file, no backend call is made, the one message
\* sent is the reminder to send a file or cancel, and the flow is still
\* upload_file afterwards.
C16_TextDuringUpload ==
    [][ (/\ last'.op = "handle_text_message"
         /\ last'.invoked
         /\ ~startswith_slash(last'.arg.text)
         /\ get_flow(redis, redis_up, now, last'.user) = Some("upload_file"))
            => /\ last'.calls = <<>>
               /\ last'.sent = <<Msg("reply_text", "waiting_for_file_upload")>>
               /\ ~last'.raised
               /\ get_flow(redis', redis_up', now', last'.user) = Some("upload_file")
      ]_vars

\* A user in the upload flow has sent a text that would have been searched
\* for outside the flow, and got the reminder.
C16_Witness ==
    /\ last.op = "handle_text_message"
    /\ last.invoked
    /\ last.arg.flow = Some("upload_file")
    /\ Len(strip(last.arg.text)) >= 3
    /\ strip(lower(last.arg.text)) \notin non_search_phrases
    /\ last.sent = <<Msg("reply_text", "waiting_for_file_upload")>>

\* C17: an attachment whose size exceeds the configured maximum is rejected
\* by handle_file_upload with one message, which names the size when the
\* user is in the upload flow, and no backend upload call is made.
C17_OversizedRejected ==
    [][ (/\ last'.op = "handle_file_upload"
         /\ last'.arg.file.file_size # None
         /\ Value(last'.arg.file.file_size) > max_file_size_mb * BytesPerMb)
            => /\ last'.calls = <<>>
               /\ last'.ret = None
               /\ Len(last'.sent) = 1
               /\ last'.sent[1].text \in {"file_too_large", "use_upload_first", "unauthorized"}
               /\ (last'.invoked /\ get_flow(redis, redis_up, now, last'.user) = Some("upload_file"))
                      => last'.sent[1].text = "file_too_large"
      ]_vars

\* A user in the upload flow has sent a file one byte above the limit and
\* was told that it is too large.
C17_Witness ==
    /\ last.op = "handle_file_upload"
    /\ last.invoked
    /\ last.arg.flow = Some("upload_file")
    /\ last.arg.file.file_size = Some(max_file_size_mb * BytesPerMb + 1)
    /\ last.sent = <<Msg("reply_text", "file_too_large")>>
    /\ last.calls = <<>>

\* C19: after a user who is allowed has issued a cancel action, the cancel
\* button or the /cancel command, their session state is cleared whatever
\* flow was active: get_state returns {} and get_flow returns none.
C19_CancelClearsState ==
    (/\ \/ (last.op = "button_callback" /\ last.arg = "cancel")
        \/ (last.op = "command_without_handler" /\ last.arg = "cancel")
     /\ is_user_allowed(allow_all_users, allowed_users, last.user))
        => /\ get_state(redis, redis_up, now, last.user) = EmptyDict
           /\ get_flow(redis, redis_up, now, last.user) = None

\* C20: when a text that does not start with a slash arrives while the
\* user's flow is a name other than refine_search and upload_file, the
\* handler does not raise, the user's state is cleared, and the text is
\* handled as a new search: the messages and the backend calls are those of
\* handle_natural_language_search for this text.
C20_UnknownFlowFallsBackToSearch ==
    [][ (/\ last'.op = "handle_text_message"
         /\ last'.invoked
         /\ ~startswith_slash(last'.arg.text)
         /\ get_flow(redis, redis_up, now, last'.user)
                \notin {None, Some("refine_search"), Some("upload_file")})
            => LET s == handle_natural_language_search(last'.user, last'.arg.text,
                                                       last'.arg.answer, now)
               IN  /\ ~last'.raised
                   /\ get_state(redis', redis_up', now', last'.user) = EmptyDict
                   /\ get_flow(redis', redis_up', now', last'.user) = None
                   /\ last'.sent = s.sent
                   /\ last'.calls = s.calls
      ]_vars

\* A user in the connect_platform flow has sent a query: it was searched
\* for and the flow is gone.
C20_Witness ==
    /\ last.op = "handle_text_message"
    /\ last.invoked
    /\ last.arg.flow = Some("connect_platform")
    /\ Len(last.calls) = 1
    /\ last.calls[1].endpoint = "/api/search"
    /\ get_state(redis, redis_up, now, last.user) = EmptyDict

(***************************************************************************)
(* The /admin command: behind require_admin only                           *)
(***************************************************************************)
\* require_admin(func), up to the call of func.
require_admin(admins, user_id) ==
    IF ~is_user_admin(admins, user_id)
    THEN [forward |-> FALSE, sent |-> <<Msg("reply_text", "admin_required")>>, raised |-> FALSE]
    ELSE [forward |-> TRUE, sent |-> <<>>, raised |-> FALSE]

\* A word of context.args: the text of a number, or other text.
Number(n) == [digits |-> str(n)]
Word(text) == [letters |-> text]

\* context.args of the /admin commands that are modelled.
AdminArgs ==
    { <<>>,
      <<Word(<<"s", "t", "a", "t", "s">>)>>,
      <<Word(<<"S", "t", "a", "t", "s">>)>>,
      <<Word(<<"u", "s", "e", "r", "s">>)>>,
      <<Word(<<"a", "d", "d", "_", "u", "s", "e", "r">>)>>,
      <<Word(<<"a", "d", "d", "_", "u", "s", "e", "r">>), Word(<<"b", "o", "b">>)>> }
        \cup { <<Word(<<"a", "d", "d", "_", "u", "s", "e", "r">>), Number(n)>> : n \in Users }
        \cup { <<Word(<<"r", "e", "m", "o", "v", "e", "_", "u", "s", "e", "r">>), Number(n)>> : n \in Users }

\* The body of admin_command: the allowed set it leaves, what it sends, and
\* whether int() raised ValueError.
admin_command(allowed, admins, args) ==
    LET subcommand == lower(args[1].letters)
        say(text) == [allowed |-> allowed, sent |-> <<Msg("reply_text", text)>>, raised |-> FALSE]
    IN  IF args = <<>> THEN say("admin_help")
        ELSE IF subcommand = <<"s", "t", "a", "t", "s">> THEN say("system_statistics")
        ELSE IF subcommand = <<"u", "s", "e", "r", "s">> THEN say("authorized_users")
        ELSE IF subcommand = <<"a", "d", "d", "_", "u", "s", "e", "r">> /\ Len(args) > 1
        THEN IF "digits" \notin DOMAIN args[2]
             THEN [allowed |-> allowed, sent |-> <<>>, raised |-> TRUE]
             ELSE LET added == add_user(allowed, int(args[2].digits))
                  IN  [allowed |-> added.allowed,
                       sent |-> <<Msg("reply_text", IF added.ret THEN "user_added"
                                                    ELSE "user_already_in_whitelist")>>,
                       raised |-> FALSE]
        ELSE IF subcommand = <<"r", "e", "m", "o", "v", "e", "_", "u", "s", "e", "r">> /\ Len(args) > 1
        THEN IF "digits" \notin DOMAIN args[2]
             THEN [allowed |-> allowed, sent |-> <<>>, raised |-> TRUE]
             ELSE LET removed == remove_user(allowed, admins, int(args[2].digits))
                  IN  [allowed |-> removed.allowed,
                       sent |-> <<Msg("reply_text", IF removed.ret THEN "user_removed"
                                                    ELSE "cannot_remove_user")>>,
                       raised |-> FALSE]
        ELSE say("invalid_admin_command")

AdminCommand(u, args) ==
    LET gate == require_admin(admin_users, u)
        body == admin_command(allowed_users, admin_users, args)
    IN  IF gate.forward
        THEN /\ allowed_users' = body.allowed
             /\ last' = [Ran("admin_command", u, args, body.sent, <<>>)
                            EXCEPT !.raised = body.raised]
             /\ UNCHANGED <<settings, admin_users, allow_all_users, store_vars, bearer>>
        ELSE Rejected("admin_command", u, args, gate)

\* The bot after startup, on configurations that name user 1 as the only
\* admin, among them one whose allowed ids do not include the admin.
InitAdmin ==
    /\ settings \in [allowed_user_ids : {{}, {2}, {1, 2}}, admin_user_ids : {{1}}]
    /\ allowed_users = settings.allowed_user_ids
    /\ admin_users = settings.admin_user_ids
    /\ allow_all_users = (Cardinality(allowed_users) = 0)
    /\ InitStore
    /\ bearer = NoToken
    /\ last = Obs("init", 0, None, None)

NextAdmin ==
    \/ \E u \in Users, args \in AdminArgs : AdminCommand(u, args)
    \/ \E u \in Users : StartCommand(u)

SpecAdmin == InitAdmin /\ [][NextAdmin]_vars

\* C18: the body of the admin command runs only for a user who passes both
\* checks, is_allowed and is_admin; for a user who fails either the body is
\* not invoked, the allowed set is unchanged and one rejection message is
\* sent.
C18_AdminBodyNeedsBothChecks ==
    [][ last'.op = "admin_command"
            => LET passes == /\ is_user_allowed(allow_all_users, allowed_users, last'.user)
                             /\ is_user_admin(admin_users, last'.user)
               IN  /\ last'.invoked => passes
                   /\ ~passes => /\ ~last'.invoked
                                 /\ allowed_users' = allowed_users
                                 /\ Len(last'.sent) = 1
                                 /\ last'.sent[1].text \in {"admin_required", "unauthorized"}
      ]_vars

(***************************************************************************)
(* RedisStateStorage as a whole: connect(), then the guarded command       *)
(***************************************************************************)
\* RedisStateStorage.connect: once connected nothing is done; otherwise the
\* client is made and pinged, and ping raises when the server cannot be
\* reached, which leaves _connected false.
connect(c, up) ==
    IF c THEN [connected |-> TRUE, raised |-> FALSE]
    ELSE IF up THEN [connected |-> TRUE, raised |-> FALSE]
    ELSE [connected |-> FALSE, raised |-> TRUE]

\* get, set, delete and exists: "await self.connect()" stands before the
\* try, so what connect raises leaves the method.
RedisStateStorage_get(c, r, up, key, t) ==
    LET conn == connect(c, up)
    IN  [connected |-> conn.connected, redis |-> r, raised |-> conn.raised,
         ret |-> IF conn.raised THEN None ELSE storage_get(r, up, key, t)]

RedisStateStorage_set(c, r, up, key, value, ttl, t) ==
    LET conn == connect(c, up)
    IN  [connected |-> conn.connected, raised |-> conn.raised, ret |-> None,
         redis |-> IF conn.raised THEN r ELSE storage_set(r, up, key, value, ttl, t)]

RedisStateStorage_delete(c, r, up, key) ==
    LET conn == connect(c, up)
    IN  [connected |-> conn.connected, raised |-> conn.raised, ret |-> None,
         redis |-> IF conn.raised THEN r ELSE storage_delete(r, up, key)]

RedisStateStorage_exists(c, r, up, key, t) ==
    LET conn == connect(c, up)
    IN  [connected |-> conn.connected, redis |-> r, raised |-> conn.raised,
         ret |-> IF conn.raised THEN None ELSE Some(storage_exists(r, up, key, t))]

StoreOps == {"storage.get", "storage.set", "storage.delete", "storage.exists"}

\* The keys and the ttl arguments of the calls that are modelled.
StoreKeys == { _get_key(u, "main") : u \in Chatters }
StoreTtls == {0, default_ttl}

StorageGet(key) ==
    LET m == RedisStateStorage_get(connected, redis, redis_up, key, now)
    IN  /\ connected' = m.connected
        /\ redis' = m.redis
        /\ last' = [Obs("storage.get", 0, [key |-> key, value |-> None], m.ret)
                       EXCEPT !.raised = m.raised]
        /\ UNCHANGED <<auth_vars, now, redis_up, tasks, bearer>>

StorageSet(key, value, ttl) ==
    LET m == RedisStateStorage_set(connected, redis, redis_up, key, value, ttl, now)
    IN  /\ connected' = m.connected
        /\ redis' = m.redis
        /\ last' = [Obs("storage.set", 0, [key |-> key, value |-> Some(value)], m.ret)
                       EXCEPT !.raised = m.raised]
        /\ UNCHANGED <<auth_vars, now, redis_up, tasks, bearer>>

StorageDelete(key) ==
    LET m == RedisStateStorage_delete(connected, redis, redis_up, key)
    IN  /\ connected' = m.connected
        /\ redis' = m.redis
        /\ last' = [Obs("storage.delete", 0, [key |-> key, value |-> None], m.ret)
                       EXCEPT !.raised = m.raised]
        /\ UNCHANGED <<auth_vars, now, redis_up, tasks, bearer>>

StorageExists(key) ==
    LET m == RedisStateStorage_exists(connected, redis, redis_up, key, now)
    IN  /\ connected' = m.connected
        /\ redis' = m.redis
        /\ last' = [Obs("storage.exists", 0, [key |-> key, value |-> None], m.ret)
                       EXCEPT !.raised = m.raised]
        /\ UNCHANGED <<auth_vars, now, redis_up, tasks, bearer>>

\* The Redis server becomes unreachable, or reachable again.
Outage ==
    /\ redis_up
    /\ redis_up' = FALSE
    /\ last' = Obs("outage", 0, None, None)
    /\ UNCHANGED <<auth_vars, now, redis, connected, tasks, bearer>>

Recovery ==
    /\ ~redis_up
    /\ redis_up' = TRUE
    /\ last' = Obs("recovery", 0, None, None)
    /\ UNCHANGED <<auth_vars, now, redis, connected, tasks, bearer>>

\* The bot started through run_polling_sync, which does not connect to the
\* store: the first store operation does.
InitStorage ==
    /\ settings = [allowed_user_ids |-> {}, admin_user_ids |-> {}]
    /\ allowed_users = settings.allowed_user_ids
    /\ admin_users = settings.admin_user_ids
    /\ allow_all_users = (Cardinality(allowed_users) = 0)
    /\ now = 0
    /\ redis = [k \in {} |-> 0]
    /\ redis_up = TRUE
    /\ connected = FALSE
    /\ tasks = [k \in {} |-> 0]
    /\ bearer = NoToken
    /\ last = Obs("init", 0, None, None)

NextStorage ==
    \/ \E key \in StoreKeys : StorageGet(key)
    \/ \E key \in StoreKeys, value \in States, ttl \in StoreTtls : StorageSet(key, value, ttl)
    \/ \E key \in StoreKeys : StorageDelete(key)
    \/ \E key \in StoreKeys : StorageExists(key)
    \/ Outage
    \/ Recovery
    \/ Tick

SpecStorage == InitStorage /\ [][NextStorage]_vars

\* C21: no get, set, delete or exists call lets a failure of the store out,
\* also when the connection cannot be established; while the store is out
\* of reach get returns absent, exists returns false, and set and delete
\* change nothing.
C21_StoreFailuresSwallowed ==
    [][ last'.op \in StoreOps
            => /\ ~last'.raised
               /\ ~redis_up => /\ redis' = redis
                               /\ last'.op = "storage.get" => last'.ret = None
                               /\ last'.op = "storage.exists" => last'.ret = Some(FALSE)
      ]_vars

(***************************************************************************)
(* /start over stored flows, checked under SpecStart                       *)
(***************************************************************************)
NextStart ==
    \/ \E u \in Chatters, flow \in Flows, data \in FlowData : SetFlow(u, flow, data)
    \/ \E u \in Chatters, updates \in Updates : UpdateState(u, updates)
    \/ \E u \in Chatters : StartCommand(u)

SpecStart == InitChat /\ [][NextStart]_vars

\* C22: when the /start command of an allowed user has completed, that
\* user's session entry is absent, whatever was stored in it, and the store
\* is what one clear_state for that user makes of it: the entries of other
\* users are as they were.
C22_StartClearsState ==
    [][ (last'.op = "start_command" /\ last'.invoked)
            => /\ _get_key(last'.user, "main") \notin DOMAIN redis'
               /\ get_state(redis', redis_up', now', last'.user) = EmptyDict
               /\ redis' = clear_state(redis, redis_up, last'.user)
               /\ \A v \in Chatters \ {last'.user} :
                      get_state(redis', redis_up', now', v) = get_state(redis, redis_up, now, v)
      ]_vars

\* /start has completed for a user whose entry held a flow, flow data and
\* an upload job.
C22_Witness ==
    /\ last.op = "start_command"
    /\ last.invoked
    /\ {"current_flow", "flow_data", "last_upload_job"} \subseteq DOMAIN last.arg.state
    /\ get_state(redis, redis_up, now, last.user) = EmptyDict

(***************************************************************************)
(* Concurrent update_state calls: each awaits its read, then its write     *)
(***************************************************************************)
\* The coroutines that may run update_state at the same time.
Tasks == {1, 2}

\* update_state up to the end of "await self.get_state": the frame of the
\* suspended call.
update_state_read(r, up, t, user_id, updates) ==
    [user |-> user_id, updates |-> updates, current_state |-> get_state(r, up, t, user_id)]

\* The rest of update_state: current_state.update(updates), then set_state.
update_state_write_merging(r, up, t, frame) ==
    set_state(r, up, t, frame.user, frame.updates @@ get_state(r, up, t, frame.user))

update_state_write(r, up, t, frame) ==
    set_state(r, up, t, frame.user, frame.updates @@ frame.current_state)

BeginUpdateState(task, u, updates) ==
    /\ task \notin DOMAIN tasks
    /\ tasks' = (task :> update_state_read(redis, redis_up, now, u, updates)) @@ tasks
    /\ last' = Obs("update_state.read", u, [task |-> task, updates |-> updates], None)
    /\ UNCHANGED <<auth_vars, now, redis, redis_up, connected, bearer>>

\* arg keeps the frame and the entry that was stored when the write came.
FinishUpdateState(task) ==
    /\ task \in DOMAIN tasks
    /\ redis' = update_state_write(redis, redis_up, now, tasks[task])
    /\ tasks' = [k \in DOMAIN tasks \ {task} |-> tasks[k]]
    /\ last' = Obs("update_state.write", tasks[task].user,
                   [task |-> task, frame |-> tasks[task],
                    before |-> get_state(redis, redis_up, now, tasks[task].user)],
                   None)
    /\ UNCHANGED <<auth_vars, now, redis_up, connected, bearer>>

NextRace ==
    \/ \E task \in Tasks, u \in Chatters, updates \in Updates : BeginUpdateState(task, u, updates)
    \/ \E task \in Tasks : FinishUpdateState(task)
    \/ \E u \in Chatters : ClearState(u)

SpecRace == InitSession /\ [][NextRace]_vars

\* C23: concurrent update_state calls for one user are last-write-wins:
\* after the write of a call the stored entry is exactly what this call
\* wrote, the state it had read with its own fields put over it and a new
\* updated_at, whatever another call has stored in between.
C23_LastWriteWins ==
    [][ last'.op = "update_state.write"
            => LET frame == last'.arg.frame
               IN  get_state(redis', redis_up', now', frame.user)
                       = ("updated_at" :> isoformat(now)) @@ frame.updates @@ frame.current_state
      ]_vars

\* Both calls read before either wrote: the second write has removed the
\* field that the first call had stored.
C23_Witness ==
    /\ last.op = "update_state.write"
    /\ "last_upload_job" \in DOMAIN last.arg.before
    /\ "last_upload_job" \notin DOMAIN last.arg.frame.current_state
    /\ "last_upload_job" \notin DOMAIN get_state(redis, redis_up, now, last.user)
    /\ "current_flow" \in DOMAIN get_state(redis, redis_up, now, last.user)

(***************************************************************************)
(* User scope of the session operations, checked under SpecSession         *)
(***************************************************************************)

\* C24: a session operation of user A leaves what every other user B would
\* read as their state as it was, and what a reading operation returns to A
\* is what it would return with B's entry removed from the store.
C24_UserScoped ==
    [][ last'.op \in {"get_state", "set_state", "update_state", "set_flow", "clear_state",
                      "get_flow", "get_flow_data"}
            => \A v \in Chatters \ {last'.user} :
                  /\ get_state(redis', redis_up', now', v) = get_state(redis, redis_up, now, v)
                  /\ last'.op = "get_state"
                         => last'.ret = get_state(clear_state(redis, redis_up, v),
                                                  redis_up, now, last'.user)
                  /\ last'.op = "get_flow"
                         => last'.ret = get_flow(clear_state(redis, redis_up, v),
                                                 redis_up, now, last'.user)
      ]_vars

\* A user's state was cleared while another user was in a flow, which is
\* still there.
C24_Witness ==
    /\ last.op = "clear_state"
    /\ get_state(redis, redis_up, now, last.user) = EmptyDict
    /\ \E v \in Chatters \ {last.user} : get_flow(redis, redis_up, now, v) = Some("refine_search")

(***************************************************************************)
(* The HTTP admin surface: server.py                                       *)
(***************************************************************************)
\* verify_admin_token: 401 for a token that does not verify, 403 for a
\* subject that is not an admin.
verify_admin_token_any_valid_token(secret, admins, token, t) ==
    LET payload == verify_backend_token(secret, token, t)
    IN  IF payload = None THEN [ok |-> FALSE, status |-> 401]
        ELSE [ok |-> TRUE, status |-> 200]

verify_admin_token(secret, admins, token, t) ==
    LET payload == verify_backend_token(secret, token, t)
    IN  IF payload = None THEN [ok |-> FALSE, status |-> 401]
        ELSE IF ~is_user_admin(admins, int(Value(payload).sub))
        THEN [ok |-> FALSE, status |-> 403]
        ELSE [ok |-> TRUE, status |-> 200]

\* POST /admin/users/{user_id} with the bearer's token
HttpAddUser(u) ==
    LET authorized == verify_admin_token(jwt_secret, admin_users, bearer.value, now)
        added == add_user(allowed_users, u)
    IN  /\ allowed_users' = IF authorized.ok THEN added.allowed ELSE allowed_users
        /\ last' = Obs("http_add_user", u, None,
                       IF authorized.ok THEN [status |-> 200, success |-> added.ret]
                       ELSE [status |-> authorized.status, success |-> FALSE])
        /\ UNCHANGED <<settings, admin_users, allow_all_users, store_vars, bearer>>

\* DELETE /admin/users/{user_id} with the bearer's token
HttpRemoveUser(u) ==
    LET authorized == verify_admin_token(jwt_secret, admin_users, bearer.value, now)
        removed == remove_user(allowed_users, admin_users, u)
    IN  /\ allowed_users' = IF authorized.ok THEN removed.allowed ELSE allowed_users
        /\ last' = Obs("http_remove_user", u, None,
                       IF authorized.ok THEN [status |-> 200, success |-> removed.ret]
                       ELSE [status |-> authorized.status, success |-> FALSE])
        /\ UNCHANGED <<settings, admin_users, allow_all_users, store_vars, bearer>>

InitHttp ==
    /\ settings \in [allowed_user_ids : {{}, {1, 2}}, admin_user_ids : {{1}}]
    /\ allowed_users = settings.allowed_user_ids
    /\ admin_users = settings.admin_user_ids
    /\ allow_all_users = (Cardinality(allowed_users) = 0)
    /\ InitStore
    /\ bearer = NoToken
    /\ last = Obs("init", 0, None, None)

NextHttp ==
    \/ \E u \in Users, m \in 0..MaxExpiresMinutes : CreateBackendToken(u, m)
    \/ TamperSignature
    \/ \E u \in Users, exp \in 0..(MaxTime + 1) : TamperPayload(u, exp)
    \/ PresentMalformed
    \/ \E u \in Users : HttpAddUser(u)
    \/ \E u \in Users : HttpRemoveUser(u)
    \/ Tick

SpecHttp == InitHttp /\ [][NextHttp]_vars

\* C25: an HTTP request to add or remove a user changes the allowed set
\* only when it carries a token that was issued to an admin, is unchanged
\* since and has not expired; with any other token the request is refused
\* with 401 or 403 and the allowed set stays as it is.
C25_HttpAdminGate ==
    [][ last'.op \in {"http_add_user", "http_remove_user"}
            => LET good == /\ bearer.how = "issued"
                           /\ now <= bearer.value.payload.exp
                           /\ bearer.issued_to \in admin_users
               IN  /\ allowed_users' # allowed_users => good
                   /\ good => last'.ret.status = 200
                   /\ ~good => /\ allowed_users' = allowed_users
                               /\ last'.ret.status \in {401, 403}
                               /\ ~last'.ret.success
      ]_vars

\* An admin's token, still valid after time has passed, has added a user
\* that was not allowed at startup.
C25_Witness ==
    /\ last.op = "http_add_user"
    /\ last.ret.status = 200
    /\ last.ret.success
    /\ bearer.value.payload.iat < now
    /\ last.user \in allowed_users \ settings.allowed_user_ids

(***************************************************************************)
(* /status: commands.py, and the status queries of the backend client      *)
(***************************************************************************)
\* What the backend can do with a status request.
StatusAnswers ==
    [outcome : {"response"}, status : {200}, body : {EmptyDict, [backend |-> TRUE, api |-> TRUE]}]
        \cup [outcome : {"timeout"}, status : {0}, body : {EmptyDict}]

JobStatusAnswers ==
    [outcome : {"response"}, status : {200},
     body : {[status |-> "running", progress |-> 40],
             [status |-> "failed", error |-> [text |-> "parse error"]]}]
        \cup [outcome : {"response"}, status : {404}, body : {EmptyDict}]

\* context.args of /status, and the answers to the requests it makes.
StatusInputs ==
    [args : {<<>>}, answers : StatusAnswers \X StatusAnswers]
        \cup [args : {<<"job1">>}, answers : { <<a>> : a \in JobStatusAnswers }]

\* The user ids BackendClient.get_system_status may put in the request:
\* list(admin_users)[0], any admin as far as the code goes, or 0.
system_status_user_ids(admins) == IF admins # {} THEN admins ELSE {0}

get_system_status(system_user, answers, t) ==
    make_request("GET", "/api/system-status", system_user, answers, t)

get_user_status(user_id, answers, t) == make_request("GET", "/api/user-status", user_id, answers, t)

get_job_status(user_id, answers, t) == make_request("GET", "/api/job-status", user_id, answers, t)

handle_job_status(user_id, job_id, answers, t) ==
    LET call == get_job_status(user_id, answers, t)
        job_status == call.result
    IN  [sent |-> <<Msg("reply_text", IF job_status = EmptyDict \/ "error" \in DOMAIN job_status
                                      THEN "job_status_error" ELSE "job_status")>>,
         calls |-> call.requests]

\* The body of status_command; system_user is the id get_system_status
\* picked.
status_command(user_id, args, system_user, answers, t) ==
    IF args # <<>> THEN handle_job_status(user_id, args[1], answers, t)
    ELSE [sent |-> <<Msg("reply_text", "system_status")>>,
          calls |-> get_system_status(system_user, <<answers[1]>>, t).requests
                        \o get_user_status(user_id, <<answers[2]>>, t).requests]

StatusCommand(u, input, system_user) ==
    LET gate == require_auth(allow_all_users, allowed_users, u, TRUE)
        body == status_command(u, input.args, system_user, input.answers, now)
    IN  /\ system_user \in system_status_user_ids(admin_users)
        /\ IF gate.forward
           THEN /\ last' = Ran("status_command", u, input, body.sent, body.calls)
                /\ UNCHANGED <<auth_vars, store_vars, bearer>>
           ELSE Rejected("status_command", u, input, gate)

\* The bot after startup with no, one or two admins.
InitStatus ==
    /\ settings \in [allowed_user_ids : {{}, {2}}, admin_user_ids : {{}, {1}, {1, 3}}]
    /\ allowed_users = settings.allowed_user_ids
    /\ admin_users = settings.admin_user_ids
    /\ allow_all_users = (Cardinality(allowed_users) = 0)
    /\ InitStore
    /\ bearer = NoToken
    /\ last = Obs("init", 0, None, None)

NextStatus ==
    \/ \E u \in Chatters, input \in StatusInputs, system_user \in Users \cup {0} :
           StatusCommand(u, input, system_user)
    \/ \E u \in Chatters, response \in Responses(SourcesBodies) : SourcesCommand(u, response)
    \/ Tick

SpecStatus == InitStatus /\ [][NextStatus]_vars

\* C26: every backend request that a user's action triggers carries a token
\* issued at the time of the request whose subject is the acting user's id,
\* and a user-id header with the same id.
C26_RequestsCarryActingUser ==
    last.op \in {"status_command", "sources_command"}
        => \A i \in DOMAIN last.calls :
              LET headers == last.calls[i].headers
              IN  /\ headers.Authorization.token.payload.sub = str(last.user)
                  /\ headers.Authorization.token.payload.iat = now
                  /\ headers.X_Bot_User_ID = str(last.user)
                  /\ verify_backend_token(jwt_secret, headers.Authorization.token, now) # None

\* The writes of the ConversationState methods, and time.
NextUpdate ==
    \/ \E u \in Chatters, state \in States : SetState(u, state)
    \/ \E u \in Chatters, updates \in Updates : UpdateState(u, updates)
    \/ \E u \in Chatters : ClearState(u)
    \/ \E u \in Chatters, flow \in Flows, data \in FlowData : SetFlow(u, flow, data)
    \/ Tick

SpecUpdate == InitSession /\ [][NextUpdate]_vars

\* C27: update_state(u, p), with nothing else touching u's entry meanwhile,
\* leaves the entry equal to the previous entry with the keys of p
\* overridden by p and updated_at refreshed: every key of the previous entry
\* that is not in p keeps its value.
C27_UpdateIsShallowMerge ==
    [][ last'.op = "update_state"
            => LET prev == get_state(redis, redis_up, now, last'.user)
                   p == last'.arg
                   entry == get_state(redis', redis_up', now', last'.user)
               IN  /\ DOMAIN entry = DOMAIN prev \cup DOMAIN p \cup {"updated_at"}
                   /\ \A k \in DOMAIN p \ {"updated_at"} : entry[k] = p[k]
                   /\ \A k \in DOMAIN prev \ (DOMAIN p \cup {"updated_at"}) : entry[k] = prev[k]
                   /\ entry["updated_at"] = isoformat(now') ]_vars

\* update_state just put a flow name over an entry that held flow data: the
\* flow data is still there.
C27_Witness ==
    /\ last.op = "update_state"
    /\ "current_flow" \in DOMAIN last.arg
    /\ LET entry == get_state(redis, redis_up, now, last.user)
       IN  /\ "flow_data" \in DOMAIN entry
           /\ entry["current_flow"] = last.arg.current_flow

ActiveFlow(u) == get_flow(redis, redis_up, now, u) # None

\* Time passes.  The clock of the model stops at MaxTime once no entry is
\* left that has an expiry time still to come.
FlowTick ==
    /\ \/ now < MaxTime
       \/ \E key \in DOMAIN redis : redis[key].expire_at > now
    /\ now' = now + 1
    /\ last' = Obs("tick", 0, None, None)
    /\ UNCHANGED <<auth_vars, redis, redis_up, connected, tasks, bearer>>

\* The handlers write up to MaxTime; reads and time go on after that.
NextFlow ==
    \/ \E u \in Chatters, flow \in Flows, data \in FlowData : now < MaxTime /\ SetFlow(u, flow, data)
    \/ \E u \in Chatters, updates \in Updates : now < MaxTime /\ UpdateState(u, updates)
    \/ \E u \in Chatters : now < MaxTime /\ ClearState(u)
    \/ \E u \in Chatters : GetFlow(u)
    \/ FlowTick

\* Time does not stand still.
SpecFlowFair == InitSession /\ [][NextFlow]_vars /\ WF_vars(FlowTick)

\* A handler writes the user's entry.
WriteBy(u) == last'.user = u /\ last'.op \in {"set_flow", "update_state", "set_state"}

\* C29: every flow terminates.  As time passes, a user whose entry is not
\* written any more is eventually in no flow and stays so (or else the
\* writes to the entry never stop); and a user who is in no flow (never
\* was, or the flow was cancelled, completed or expired) stays in no flow
\* until a write that names a flow.
C29_EveryFlowTerminates ==
    /\ \A u \in Chatters : <>[](~ActiveFlow(u)) \/ []<><<WriteBy(u)>>_vars
    /\ \A u \in Chatters : ActiveFlow(u) ~> ~ActiveFlow(u)
    /\ [][ \A u \in Chatters :
             (~ActiveFlow(u) /\ ActiveFlow(u)')
                 => /\ last'.user = u
                    /\ \/ last'.op = "set_flow"
                       \/ last'.op = "update_state" /\ "current_flow" \in DOMAIN last'.arg ]_vars

\* A read found no flow for a user whose entry, with the flow in it, had
\* expired.
C29_Witness ==
    \E u \in Chatters :
        /\ last.op = "get_flow" /\ last.user = u /\ last.ret = None
        /\ _get_key(u, "main") \in DOMAIN redis
        /\ "current_flow" \in DOMAIN json_loads(redis[_get_key(u, "main")].data)
        /\ redis[_get_key(u, "main")].expire_at <= now

(***************************************************************************)
(* Pressed buttons                                                         *)
(***************************************************************************)
ButtonPayloads == Payloads \cup PrefixedPayloads

NextButton ==
    \/ \E u \in Chatters, data \in ButtonPayloads : ButtonCallback(u, data)
    \/ \E u \in Chatters : UploadCommand(u)
    \/ Tick

SpecButton == InitChat /\ [][NextButton]_vars

\* C30: for every button payload from an allowed user, button_callback
\* finishes without propagating an exception, the user sees a message (the
\* handler's result or the generic failure message), and the user's session
\* entry is unchanged, or cleared, or set by the handler as a whole entry
\* stamped with the time of the call.
C30_ButtonAlwaysAnswers ==
    [][ (last'.op = "button_callback" /\ last'.invoked)
            => LET prev == get_state(redis, redis_up, now, last'.user)
                   entry == get_state(redis', redis_up', now', last'.user)
               IN  /\ ~last'.raised
                   /\ last'.sent # <<>>
                   /\ \/ entry = prev
                      \/ entry = EmptyDict
                      \/ /\ "current_flow" \in DOMAIN entry
                         /\ entry["updated_at"] = isoformat(now') ]_vars

\* C31: a button press from a user who is not allowed produces the visible
\* rejection message and no exception, and the button handler is not
\* invoked, as for a rejected command or text message.
C31_ButtonRejectedVisibly ==
    (last.op = "button_callback" /\ ~is_user_allowed(allow_all_users, allowed_users, last.user))
        => /\ ~last.invoked
           /\ ~last.raised
           /\ last.sent = <<Msg("reply_text", "unauthorized")>>

\* C32: a malformed admin sub-command (an unknown sub-command, add_user or
\* remove_user without an argument or with an argument that is not a
\* number) is answered with the corrective message, raises no exception and
\* leaves the allowed set unchanged.
C32_MalformedAdminCommandRejected ==
    [][ (/\ last'.op = "admin_command"
         /\ last'.invoked
         /\ last'.arg # <<>>
         /\ LET subcommand == lower(last'.arg[1].letters)
            IN  /\ subcommand \notin {<<"s", "t", "a", "t", "s">>, <<"u", "s", "e", "r", "s">>}
                /\ subcommand \in {<<"a", "d", "d", "_", "u", "s", "e", "r">>,
                                   <<"r", "e", "m", "o", "v", "e", "_", "u", "s", "e", "r">>}
                       => (Len(last'.arg) = 1 \/ "digits" \notin DOMAIN last'.arg[2]))
            => /\ ~last'.raised
               /\ last'.sent = <<Msg("reply_text", "invalid_admin_command")>>
               /\ allowed_users' = allowed_users ]_vars

\* C33: a free-text message whose trimmed length is under 3 characters
\* causes no backend search call, whatever flow the user is in (none,
\* refine_search or another).
C33_ShortQueryNeverSearched ==
    (/\ last.op = "handle_text_message"
     /\ last.invoked
     /\ ~startswith_slash(last.arg.text)
     /\ Len(strip(last.arg.text)) < 3)
        => last.calls = <<>>

\* C34: a button payload is dispatched to the handler of the action it
\* encodes: the payload fetch_source_<id> of the /fetch source list reaches
\* handle_fetch_source_callback and triggers exactly one sync_source backend
\* call, for <id>.
C34_FetchSourceDispatched ==
    (last.op = "button_callback" /\ last.invoked /\ last.arg = "fetch_source_s1")
        => /\ Len(last.calls) = 1
           /\ last.calls[1].endpoint = "/api/sync"
           /\ last.calls[1].data.source_id = "s1"
           /\ last.sent # <<>>
           /\ last.sent[1] = Msg("edit_message_text", "fetching_from_source")

\* C35: a handler takes its failure branch only for a classified failure
\* outcome: when the backend answers the job-status request with HTTP 200,
\* whatever fields the body has (a failed job's body has an error field),
\* the handler treats the outcome as success and shows the job.
C35_Status200IsSuccess ==
    (/\ last.op = "status_command"
     /\ last.invoked
     /\ last.arg.args # <<>>
     /\ last.arg.answers[1].outcome = "response"
     /\ last.arg.answers[1].status = 200)
        => last.sent = <<Msg("reply_text", "job_status")>>

(***************************************************************************)
(* Every operation that changes who is allowed: direct calls, /admin, HTTP *)
(***************************************************************************)
NextAdminSet ==
    \/ \E u \in Users : AddUser(u)
    \/ \E u \in Users : RemoveUser(u)
    \/ \E u \in Users : IsUserAdmin(u)
    \/ \E u \in Users, args \in AdminArgs : AdminCommand(u, args)
    \/ \E u \in Users : CreateBackendToken(u, MaxExpiresMinutes)
    \/ \E u \in Users : HttpAddUser(u)
    \/ \E u \in Users : HttpRemoveUser(u)

SpecAdminSet == InitAdmin /\ [][NextAdminSet]_vars

\* C36: the admin set is constant for the life of the process: no sequence
\* of add_user, remove_user, admin commands and HTTP admin operations
\* changes it, and is_user_admin(u) gives the answer of the configuration in
\* every reachable state.
C36_AdminSetConstant ==
    /\ admin_users = settings.admin_user_ids
    /\ last.op = "is_user_admin" => last.ret = (last.user \in settings.admin_user_ids)

\* is_user_admin was asked about an admin after the allowed set had changed.
C36_Witness ==
    /\ last.op = "is_user_admin"
    /\ last.user \in settings.admin_user_ids
    /\ allowed_users # settings.allowed_user_ids

C39_RejectedFileLeavesState ==
    [][ (/\ last'.op = "handle_file_upload"
         /\ last'.invoked
         /\ \/ last'.arg.flow # Some("upload_file")
            \/ /\ last'.arg.file.file_size # None
               /\ Value(last'.arg.file.file_size) > max_file_size_mb * BytesPerMb
            \/ ~is_supported_file_type(upload_filename(last'.arg.file)))
            => /\ last'.calls = <<>>
               /\ last'.ret = None
               /\ ~last'.raised
               /\ redis' = redis
               /\ get_flow(redis', redis_up', now', last'.user) = last'.arg.flow ]_vars

\* A user in the upload flow sent a file with an extension that is not
\* supported, and is still in the upload flow.
C39_Witness ==
    /\ last.op = "handle_file_upload"
    /\ last.invoked
    /\ last.arg.flow = Some("upload_file")
    /\ last.sent = <<Msg("reply_text", "unsupported_file_extension")>>
    /\ get_flow(redis, redis_up, now, last.user) = Some("upload_file")

====
